---- MODULE Spec2Model ----
(***************************************************************************)
(* simple-redis: the RESP wire codec (src/resp), the command layer         *)
(* (src/cmd), the store (src/backend) and the connection loop              *)
(* (src/network.rs).                                                       *)
(*                                                                         *)
(* A byte is a one-character string; CR and LF are the tokens "CR" and     *)
(* "LF", and "xFF" is a byte that is not valid UTF-8.  A buffer is a       *)
(* sequence of bytes.  Rust slices are 0-based and half open; Slice and    *)
(* Drop below convert to the 1-based sequences of TLA+.                    *)
(***************************************************************************)
EXTENDS Integers, Sequences, FiniteSets, TLC

\* ------------------------------------------------------------------ bytes

CR == "CR"

LF == "LF"

CRLF == <<CR, LF>>

CRLF_LEN == 2

DIGITS == <<"0", "1", "2", "3", "4", "5", "6", "7", "8", "9">>

UPPER ==
    <<"A", "B", "C", "D", "E", "F", "G", "H", "I", "J", "K", "L", "M",
      "N", "O", "P", "Q", "R", "S", "T", "U", "V", "W", "X", "Y", "Z">>

LOWER ==
    <<"a", "b", "c", "d", "e", "f", "g", "h", "i", "j", "k", "l", "m",
      "n", "o", "p", "q", "r", "s", "t", "u", "v", "w", "x", "y", "z">>

IsDigit(b) == \E i \in 1..10 : DIGITS[i] = b

DigitVal(b) == (CHOOSE i \in 1..10 : DIGITS[i] = b) - 1

\* buf[from..to] of Rust
Slice(buf, from, to) == SubSeq(buf, from + 1, to)

\* buf[n..] of Rust, and the buffer left by advance(n) / split_to(n)
Drop(buf, n) == SubSeq(buf, n + 1, Len(buf))

Take(buf, n) == SubSeq(buf, 1, n)

StartsWith(buf, p) == Len(buf) >= Len(p) /\ SubSeq(buf, 1, Len(p)) = p

SetMin(S) == CHOOSE x \in S : \A y \in S : x <= y

\* a lower-casing that leaves every byte as it is
to_ascii_lowercase_skip(s) == s

\* u8::to_ascii_lowercase
to_ascii_lowercase_byte(b) ==
    IF \E i \in 1..26 : UPPER[i] = b
    THEN LOWER[CHOOSE i \in 1..26 : UPPER[i] = b]
    ELSE b

to_ascii_lowercase(s) == [i \in 1..Len(s) |-> to_ascii_lowercase_byte(s[i])]

\* String::from_utf8: fails on a byte that is not valid UTF-8
IsUtf8(s) == \A i \in 1..Len(s) : s[i] # "xFF"

\* String::from_utf8_lossy: an invalid byte becomes U+FFFD
from_utf8_lossy(s) == [i \in 1..Len(s) |-> IF s[i] = "xFF" THEN "uFFFD" ELSE s[i]]

\* ----------------------------------------------------- decimal conversions

RECURSIVE DecVal(_)
\* the value of a non-empty run of decimal digits
DecVal(s) ==
    IF s = <<>> THEN 0
    ELSE DecVal(Take(s, Len(s) - 1)) * 10 + DigitVal(s[Len(s)])

AllDigits(s) == s # <<>> /\ \A i \in 1..Len(s) : IsDigit(s[i])

RECURSIVE FmtNat(_)
\* format!("{}", n) for n >= 0
FmtNat(n) ==
    IF n < 10 THEN <<DIGITS[n + 1]>>
    ELSE FmtNat(n \div 10) \o <<DIGITS[(n % 10) + 1]>>

\* format!("{}", n) for an i64
FmtInt(n) == IF n < 0 THEN <<"-">> \o FmtNat(0 - n) ELSE FmtNat(n)

\* str::parse::<usize>: an optional '+', then one or more digits; no '-'
parse_usize(s) ==
    LET body == IF s # <<>> /\ s[1] = "+" THEN Tail(s) ELSE s
    IN  IF AllDigits(body) THEN [ok |-> TRUE, val |-> DecVal(body)]
        ELSE [ok |-> FALSE, val |-> 0]

\* a parse that reads text that is no number as 0
parse_i64_lenient(s) ==
    IF AllDigits(s) THEN [ok |-> TRUE, val |-> DecVal(s)] ELSE [ok |-> TRUE, val |-> 0]

\* str::parse::<i64>: an optional '+' or '-', then one or more digits
parse_i64(s) ==
    LET signed == s # <<>> /\ s[1] \in {"+", "-"}
        body == IF signed THEN Tail(s) ELSE s
    IN  IF AllDigits(body)
        THEN [ok |-> TRUE,
              val |-> IF signed /\ s[1] = "-" THEN 0 - DecVal(body)
                      ELSE DecVal(body)]
        ELSE [ok |-> FALSE, val |-> 0]

RECURSIVE StripLeadingZeros(_)
StripLeadingZeros(s) ==
    IF s # <<>> /\ s[1] = "0" THEN StripLeadingZeros(Tail(s)) ELSE s

RECURSIVE StripTrailingZeros(_)
StripTrailingZeros(s) ==
    IF s # <<>> /\ s[Len(s)] = "0"
    THEN StripTrailingZeros(Take(s, Len(s) - 1)) ELSE s

TXT_INF == <<"i", "n", "f">>

TXT_INFINITY == <<"i", "n", "f", "i", "n", "i", "t", "y">>

TXT_NAN == <<"n", "a", "n">>

\* str::parse::<f64> on decimal literals without exponent, and the text
\* RespDouble::encode writes for the parsed value (Display of f64 prints the
\* shortest decimal that reads back; nan, inf and -inf are special-cased).
\* A double is represented by that canonical text.  Exponent forms are
\* outside the byte alphabet of the model.
parse_f64(s) ==
    LET signed == s # <<>> /\ s[1] \in {"+", "-"}
        neg == signed /\ s[1] = "-"
        body == IF signed THEN Tail(s) ELSE s
        low == to_ascii_lowercase(body)
        dots == {i \in 1..Len(body) : body[i] = "."}
        dot == IF dots = {} THEN Len(body) + 1 ELSE SetMin(dots)
        ip == SubSeq(body, 1, dot - 1)
        fp == SubSeq(body, dot + 1, Len(body))
        ipc == StripLeadingZeros(ip)
        fpc == StripTrailingZeros(fp)
        mag == (IF ipc = <<>> THEN <<"0">> ELSE ipc)
               \o (IF fpc = <<>> THEN <<>> ELSE <<".">> \o fpc)
    IN  IF low = TXT_NAN THEN [ok |-> TRUE, val |-> TXT_NAN]
        ELSE IF low = TXT_INF \/ low = TXT_INFINITY
        THEN [ok |-> TRUE, val |-> (IF neg THEN <<"-">> ELSE <<>>) \o TXT_INF]
        ELSE IF /\ Cardinality(dots) <= 1
                /\ ip \o fp # <<>>
                /\ \A i \in 1..Len(ip) : IsDigit(ip[i])
                /\ \A i \in 1..Len(fp) : IsDigit(fp[i])
        THEN [ok |-> TRUE,
              val |-> (IF neg /\ mag # <<"0">> THEN <<"-">> ELSE <<>>) \o mag]
        ELSE [ok |-> FALSE, val |-> <<>>]

\* ----------------------------------------------------------------- frames
\* RespFrame: one record shape for the ten kinds, so that any two frames can
\* be compared.  s: text or payload bytes; n: the integer, or 1/0 for a
\* boolean; items: the children of an Array (and the key and value of a Map
\* entry); elems: the members of a Set, or the entries of a Map.

Frame(kind, s, n, items, elems) ==
    [kind |-> kind, s |-> s, n |-> n, items |-> items, elems |-> elems]

NoFrame == Frame("None", <<>>, 0, <<>>, {})

SimpleString(s) == Frame("SimpleString", s, 0, <<>>, {})

SimpleError(s) == Frame("SimpleError", s, 0, <<>>, {})

Integer(n) == Frame("Integer", <<>>, n, <<>>, {})

BulkString(s) == Frame("BulkString", s, 0, <<>>, {})

RespArray(items) == Frame("Array", <<>>, 0, items, {})

RespNull == Frame("Null", <<>>, 0, <<>>, {})

Boolean(b) == Frame("Boolean", <<>>, IF b THEN 1 ELSE 0, <<>>, {})

RespDouble(s) == Frame("Double", s, 0, <<>>, {})

MapEntry(k, v) == Frame("Entry", <<>>, 0, <<k, v>>, {})

RespMap(entries) == Frame("Map", <<>>, 0, <<>>, entries)

RespSet(members) == Frame("Set", <<>>, 0, <<>>, members)

\* HashMap::insert: the value of an existing key is replaced
MapInsert(entries, k, v) ==
    {e \in entries : e.items[1] # k} \cup {MapEntry(k, v)}

\* ---------------------------------------------------------------- encoder

RECURSIVE Orderings(_)
\* the orders in which a HashMap / HashSet may be iterated
Orderings(S) ==
    IF S = {} THEN {<<>>}
    ELSE UNION {{<<x>> \o t : t \in Orderings(S \ {x})} : x \in S}

RECURSIVE RespFrame_encode(_), EncodeAll(_)

\* the byte strings RespEncoder::encode may return for a frame: one for every
\* kind but Map and Set, whose children are written in iteration order
RespFrame_encode(f) ==
    CASE f.kind = "SimpleString" -> {<<"+">> \o f.s \o CRLF}
      [] f.kind = "SimpleError" -> {<<"-">> \o f.s \o CRLF}
      [] f.kind = "Integer" -> {<<":">> \o FmtInt(f.n) \o CRLF}
      [] f.kind = "BulkString" ->
            {<<"$">> \o FmtNat(Len(f.s)) \o CRLF \o f.s \o CRLF}
      [] f.kind = "Array" ->
            {<<"*">> \o FmtNat(Len(f.items)) \o CRLF \o b :
                b \in EncodeAll(f.items)}
      [] f.kind = "Null" -> {<<"_">> \o CRLF}
      [] f.kind = "Boolean" ->
            {<<"#", IF f.n = 1 THEN "t" ELSE "f">> \o CRLF}
      [] f.kind = "Double" -> {<<",">> \o f.s \o CRLF}
      [] f.kind = "Entry" -> EncodeAll(f.items)
      [] f.kind = "Map" ->
            {<<"%">> \o FmtNat(Cardinality(f.elems)) \o CRLF \o b :
                b \in UNION {EncodeAll(o) : o \in Orderings(f.elems)}}
      [] f.kind = "Set" ->
            {<<"~">> \o FmtNat(Cardinality(f.elems)) \o CRLF \o b :
                b \in UNION {EncodeAll(o) : o \in Orderings(f.elems)}}

\* the concatenated encodings of a sequence of frames
EncodeAll(fs) ==
    IF fs = <<>> THEN {<<>>}
    ELSE {h \o t : h \in RespFrame_encode(Head(fs)), t \in EncodeAll(Tail(fs))}

\* ---------------------------------------------------------------- decoder
\* A decode returns res ("Ok", "NotComplete", "Invalid": any other RespError,
\* or "Panic": an out-of-range slice), the frame, and the buffer it leaves.
\* expect_length returns res and the length.

DecRes(res, frame, rest) == [res |-> res, frame |-> frame, rest |-> rest]

LenRes(res, len) == [res |-> res, len |-> len]

\* the first i >= 1 with buf[i] = CR and buf[i+1] = LF (0-based), or -1
find_crlf(buf) ==
    LET hits == {i \in 1..(Len(buf) - 2) : buf[i + 1] = CR /\ buf[i + 2] = LF}
    IN  IF hits = {} THEN 0 - 1 ELSE SetMin(hits)

extract_simple_resp(buf, prefix) ==
    IF Len(buf) < 3 THEN [res |-> "NotComplete", end |-> 0]
    ELSE IF buf[1] # prefix THEN [res |-> "Invalid", end |-> 0]
    ELSE IF find_crlf(buf) < 0 THEN [res |-> "NotComplete", end |-> 0]
    ELSE [res |-> "Ok", end |-> find_crlf(buf)]

parse_length(buf, prefix) ==
    LET x == extract_simple_resp(buf, prefix)
        p == parse_usize(from_utf8_lossy(Slice(buf, 1, x.end)))
    IN  IF x.res # "Ok" THEN [res |-> x.res, end |-> 0, len |-> 0]
        ELSE IF ~p.ok THEN [res |-> "Invalid", end |-> 0, len |-> 0]
        ELSE [res |-> "Ok", end |-> x.end, len |-> p.val]

RESP2_NULL == <<"-", "1", CR, LF>>

\* a decoder without the RESP2 compatibility check
check_resp2_null_never(buf, prefix) == FALSE

check_resp2_null(buf, prefix) == StartsWith(buf, <<prefix>> \o RESP2_NULL)

RECURSIVE RespFrame_expect_length(_), CalcChildren(_, _, _), CalcPairs(_, _, _)

\* one pass of the loop for "*" and "~": l is expect_length(data), and
\* `&data[len..]` panics when len is past the end of data
CalcChildStep(l, data, n, total) ==
    IF l.res # "Ok" THEN l
    ELSE IF l.len > Len(data) THEN LenRes("Panic", 0)
    ELSE CalcChildren(Drop(data, l.len), n - 1, total + l.len)

\* the loop of calc_total_length for "*" and "~"
CalcChildren(data, n, total) ==
    IF n = 0 THEN LenRes("Ok", total)
    ELSE CalcChildStep(RespFrame_expect_length(data), data, n, total)

\* the value half of one pass of the loop for "%"
CalcPairValue(v, data, n, total) ==
    IF v.res # "Ok" THEN v
    ELSE IF v.len > Len(data) THEN LenRes("Panic", 0)
    ELSE CalcPairs(Drop(data, v.len), n - 1, total + v.len)

\* the key half of one pass of the loop for "%"
CalcPairKey(k, data, n, total) ==
    IF k.res # "Ok" THEN k
    ELSE IF k.len > Len(data) THEN LenRes("Panic", 0)
    ELSE CalcPairValue(RespFrame_expect_length(Drop(data, k.len)),
                       Drop(data, k.len), n, total + k.len)

\* the loop of calc_total_length for "%"
CalcPairs(data, n, total) ==
    IF n = 0 THEN LenRes("Ok", total)
    ELSE CalcPairKey(RespFrame_expect_length(data), data, n, total)

calc_total_length(buf, end, len, prefix) ==
    LET total == end + CRLF_LEN
        data == Drop(buf, total)
    IN  CASE prefix \in {"*", "~"} -> CalcChildren(data, len, total)
          [] prefix = "%" -> CalcPairs(data, len, total)
          [] OTHER -> LenRes("Ok", len + total)

\* expect_length of SimpleString, SimpleError, i64 and RespDouble
Line_expect_length(buf, prefix) ==
    LET x == extract_simple_resp(buf, prefix)
    IN  IF x.res # "Ok" THEN LenRes(x.res, 0)
        ELSE LenRes("Ok", x.end + CRLF_LEN)

BulkString_expect_length(buf) ==
    IF check_resp2_null(buf, "$") THEN LenRes("Ok", 1 + Len(RESP2_NULL))
    ELSE LET p == parse_length(buf, "$")
         IN  IF p.res # "Ok" THEN LenRes(p.res, 0)
             ELSE LenRes("Ok", p.end + CRLF_LEN + p.len + CRLF_LEN)

\* expect_length of RespArray, RespMap and RespSet
Composite_expect_length_of(p, buf, prefix) ==
    IF p.res # "Ok" THEN LenRes(p.res, 0)
    ELSE calc_total_length(buf, p.end, p.len, prefix)

Composite_expect_length(buf, prefix) ==
    Composite_expect_length_of(parse_length(buf, prefix), buf, prefix)

RespNull_expect_length(buf) == LenRes("Ok", 3)

bool_expect_length(buf) == LenRes("Ok", 4)

RespFrame_expect_length(buf) ==
    IF buf = <<>> THEN LenRes("Invalid", 0)
    ELSE CASE buf[1] \in {"+", "-", ":", ","} -> Line_expect_length(buf, buf[1])
           [] buf[1] = "$" -> BulkString_expect_length(buf)
           [] buf[1] \in {"*", "%", "~"} -> Composite_expect_length(buf, buf[1])
           [] buf[1] = "_" -> RespNull_expect_length(buf)
           [] buf[1] = "#" -> bool_expect_length(buf)
           [] OTHER -> LenRes("Invalid", 0)

SimpleString_decode(buf) ==
    LET x == extract_simple_resp(buf, "+")
    IN  IF x.res # "Ok" THEN DecRes(x.res, NoFrame, buf)
        ELSE DecRes("Ok", SimpleString(from_utf8_lossy(Slice(buf, 1, x.end))),
                    Drop(buf, x.end + 2))

\* a SimpleError decoder that keeps the prefix byte in the text
SimpleError_decode_keep_prefix(buf) ==
    LET x == extract_simple_resp(buf, "-")
    IN  IF x.res # "Ok" THEN DecRes(x.res, NoFrame, buf)
        ELSE DecRes("Ok", SimpleError(from_utf8_lossy(Slice(buf, 0, x.end))),
                    Drop(buf, x.end + 2))

SimpleError_decode(buf) ==
    LET x == extract_simple_resp(buf, "-")
    IN  IF x.res # "Ok" THEN DecRes(x.res, NoFrame, buf)
        ELSE DecRes("Ok", SimpleError(from_utf8_lossy(Slice(buf, 1, x.end))),
                    Drop(buf, x.end + 2))

i64_decode(buf) ==
    LET x == extract_simple_resp(buf, ":")
        num == parse_i64(from_utf8_lossy(Slice(buf, 1, x.end)))
    IN  IF x.res # "Ok" THEN DecRes(x.res, NoFrame, buf)
        ELSE IF ~num.ok THEN DecRes("Invalid", NoFrame, Drop(buf, x.end + 2))
        ELSE DecRes("Ok", Integer(num.val), Drop(buf, x.end + 2))

RespDouble_decode(buf) ==
    LET x == extract_simple_resp(buf, ",")
        num == parse_f64(from_utf8_lossy(Slice(buf, 1, x.end)))
    IN  IF x.res # "Ok" THEN DecRes(x.res, NoFrame, buf)
        ELSE IF ~num.ok THEN DecRes("Invalid", NoFrame, Drop(buf, x.end + 2))
        ELSE DecRes("Ok", RespDouble(num.val), Drop(buf, x.end + 2))

bool_decode(buf) ==
    LET x == extract_simple_resp(buf, "#")
        s == Slice(buf, 1, x.end)
    IN  IF x.res # "Ok" THEN DecRes(x.res, NoFrame, buf)
        ELSE IF s = <<"t">> THEN DecRes("Ok", Boolean(TRUE), Drop(buf, x.end + 2))
        ELSE IF s = <<"f">> THEN DecRes("Ok", Boolean(FALSE), Drop(buf, x.end + 2))
        ELSE DecRes("Invalid", NoFrame, Drop(buf, x.end + 2))

RespNull_decode(buf) ==
    LET x == extract_simple_resp(buf, "_")
    IN  IF x.res # "Ok" THEN DecRes(x.res, NoFrame, buf)
        ELSE DecRes("Ok", RespNull, Drop(buf, x.end + CRLF_LEN))

\* a BulkString decoder that leaves the CRLF after the payload in the buffer
BulkString_decode_keep_terminator(buf) ==
    IF check_resp2_null(buf, "$")
    THEN DecRes("Ok", BulkString(<<>>), Drop(buf, 1 + Len(RESP2_NULL)))
    ELSE LET p == parse_length(buf, "$")
             act_len == Len(Drop(buf, p.end + CRLF_LEN))
         IN  IF p.res # "Ok" THEN DecRes(p.res, NoFrame, buf)
             ELSE IF act_len < p.len + CRLF_LEN
             THEN DecRes("NotComplete", NoFrame, buf)
             ELSE DecRes("Ok",
                         BulkString(Slice(Drop(buf, p.end + CRLF_LEN), 0, p.len)),
                         Drop(Drop(buf, p.end + CRLF_LEN), p.len))

BulkString_decode(buf) ==
    IF check_resp2_null(buf, "$")
    THEN DecRes("Ok", BulkString(<<>>), Drop(buf, 1 + Len(RESP2_NULL)))
    ELSE LET p == parse_length(buf, "$")
             act_len == Len(Drop(buf, p.end + CRLF_LEN))
         IN  IF p.res # "Ok" THEN DecRes(p.res, NoFrame, buf)
             ELSE IF act_len < p.len + CRLF_LEN
             THEN DecRes("NotComplete", NoFrame, buf)
             ELSE DecRes("Ok",
                         BulkString(Slice(Drop(buf, p.end + CRLF_LEN), 0, p.len)),
                         Drop(Drop(buf, p.end + CRLF_LEN), p.len + CRLF_LEN))

RECURSIVE RespFrame_decode(_), DecodeChildren(_, _, _)

\* the loop `for _ in 0..len { RespFrame::decode(buf)? }`: the frames decoded
\* so far are returned in an Array frame; on an error the buffer is left as
\* the failing child left it
DecodeChildStep(r, n, acc) ==
    IF r.res # "Ok" THEN DecRes(r.res, NoFrame, r.rest)
    ELSE DecodeChildren(r.rest, n - 1, Append(acc, r.frame))

DecodeChildren(buf, n, acc) ==
    IF n = 0 THEN DecRes("Ok", RespArray(acc), buf)
    ELSE DecodeChildStep(RespFrame_decode(buf), n, acc)

\* the length pre-check and what follows it: t is calc_total_length's result
Composite_decode_body(p, t, buf, perEntry) ==
    IF t.res # "Ok" THEN DecRes(t.res, NoFrame, buf)
    ELSE IF Len(buf) < t.len THEN DecRes("NotComplete", NoFrame, buf)
    ELSE DecodeChildren(Drop(buf, p.end + CRLF_LEN), perEntry * p.len, <<>>)

\* the length line and what follows it: p is parse_length's result
Composite_decode_head(p, buf, prefix, perEntry) ==
    IF p.res # "Ok" THEN DecRes(p.res, NoFrame, buf)
    ELSE Composite_decode_body(p, calc_total_length(buf, p.end, p.len, prefix),
                               buf, perEntry)

\* the part RespArray::decode, RespMap::decode and RespSet::decode share:
\* length line, length pre-check, advance past the header, decode children
Composite_decode(buf, prefix, perEntry) ==
    Composite_decode_head(parse_length(buf, prefix), buf, prefix, perEntry)

RespArray_decode(buf) ==
    IF check_resp2_null(buf, "*")
    THEN DecRes("Ok", RespArray(<<>>), Drop(buf, 1 + Len(RESP2_NULL)))
    ELSE Composite_decode(buf, "*", 1)

RECURSIVE CollectMap(_, _)
\* map.insert(key, value) for the decoded children, in order
CollectMap(items, acc) ==
    IF items = <<>> THEN acc
    ELSE CollectMap(Drop(items, 2), MapInsert(acc, items[1], items[2]))

RespMap_collect(r) ==
    IF r.res # "Ok" THEN r
    ELSE DecRes("Ok", RespMap(CollectMap(r.frame.items, {})), r.rest)

RespMap_decode(buf) == RespMap_collect(Composite_decode(buf, "%", 2))

RespSet_collect(r) ==
    IF r.res # "Ok" THEN r
    ELSE DecRes("Ok", RespSet({r.frame.items[i] : i \in 1..Len(r.frame.items)}),
                r.rest)

RespSet_decode(buf) == RespSet_collect(Composite_decode(buf, "~", 1))

RespFrame_decode(buf) ==
    IF buf = <<>> THEN DecRes("NotComplete", NoFrame, buf)
    ELSE CASE buf[1] = "+" -> SimpleString_decode(buf)
           [] buf[1] = "-" -> SimpleError_decode(buf)
           [] buf[1] = ":" -> i64_decode(buf)
           [] buf[1] = "$" -> BulkString_decode(buf)
           [] buf[1] = "*" -> RespArray_decode(buf)
           [] buf[1] = "_" -> RespNull_decode(buf)
           [] buf[1] = "#" -> bool_decode(buf)
           [] buf[1] = "," -> RespDouble_decode(buf)
           [] buf[1] = "%" -> RespMap_decode(buf)
           [] buf[1] = "~" -> RespSet_decode(buf)
           [] OTHER -> DecRes("Invalid", NoFrame, buf)

\* ------------------------------------------------------------------ store
\* BackendInner: three collections side by side.  map is a
\* DashMap<String, RespFrame>, a set of entries with unique keys; hmap is a
\* DashMap<String, DashMap<String, RespFrame>>, a set of bindings of a key to
\* such a set of entries; set is a DashMap<String, DashSet<RespFrame>>, a set
\* of bindings of a key to the members a DashSet holds.

KvEntry(k, v) == [key |-> k, value |-> v]

KvHas(m, k) == \E e \in m : e.key = k

KvValue(m, k) == (CHOOSE e \in m : e.key = k).value

\* Backend::new
EmptyBackend == [map |-> {}, hmap |-> {}, set |-> {}]

\* an outer binding of hmap or set: a key and its container
Binding(k, c) == [key |-> k, inner |-> c]

\* the container bound to k (the binding exists)
Inner_of(h, k) == (CHOOSE e \in h : e.key = k).inner

\* DashMap::insert on an outer map: bind k to container c
Rebind(h, k, c) == {e \in h : e.key # k} \cup {Binding(k, c)}

\* Backend::get
Backend_get(b, k) == IF KvHas(b.map, k) THEN KvValue(b.map, k) ELSE NoFrame

\* a set that keeps the value a key already has
Backend_set_keep_first(b, k, v) ==
    IF KvHas(b.map, k) THEN b
    ELSE [b EXCEPT !.map = b.map \cup {KvEntry(k, v)}]

\* a set that drops the entries of all other keys
Backend_set_alone(b, k, v) == [b EXCEPT !.map = {KvEntry(k, v)}]

\* Backend::set
Backend_set(b, k, v) ==
    [b EXCEPT !.map = {e \in b.map : e.key # k} \cup {KvEntry(k, v)}]

\* a del that reports a removal whether or not the key was there
Backend_del_always(b, k) ==
    [backend |-> [b EXCEPT !.map = {e \in b.map : e.key # k}], removed |-> TRUE]

\* a del that removes the key from all three collections
Backend_del_everywhere(b, k) ==
    [backend |-> [map |-> {e \in b.map : e.key # k},
                  hmap |-> {e \in b.hmap : e.key # k},
                  set |-> {e \in b.set : e.key # k}],
     removed |-> KvHas(b.map, k)]

\* Backend::del: the store after the removal, and whether the key was present
Backend_del(b, k) ==
    [backend |-> [b EXCEPT !.map = {e \in b.map : e.key # k}],
     removed |-> KvHas(b.map, k)]

\* Backend::hget: the value, or NoFrame for None
Backend_hget(b, k, f) ==
    IF KvHas(b.hmap, k) /\ KvHas(Inner_of(b.hmap, k), f)
    THEN KvValue(Inner_of(b.hmap, k), f)
    ELSE NoFrame

\* an hset that keeps the value a field already has
Backend_hset_keep_first(b, k, f, v) ==
    LET old == IF KvHas(b.hmap, k) THEN Inner_of(b.hmap, k) ELSE {}
    IN  [b EXCEPT !.hmap =
            Rebind(b.hmap, k, IF KvHas(old, f) THEN old ELSE old \cup {KvEntry(f, v)})]

\* an hset that binds the key to a container of its own
Backend_hset_fresh(b, k, f, v) ==
    [b EXCEPT !.hmap = Rebind(b.hmap, k, {KvEntry(f, v)})]

\* Backend::hset: entry(key).or_default() and insert(field, value)
Backend_hset(b, k, f, v) ==
    LET old == IF KvHas(b.hmap, k) THEN Inner_of(b.hmap, k) ELSE {}
    IN  [b EXCEPT !.hmap =
            Rebind(b.hmap, k, {e \in old : e.key # f} \cup {KvEntry(f, v)})]

\* Backend::hgetall: Some(clone of the inner map) or None
Backend_hgetall(b, k) ==
    IF KvHas(b.hmap, k) THEN [some |-> TRUE, inner |-> Inner_of(b.hmap, k)]
    ELSE [some |-> FALSE, inner |-> {}]

\* a variant of hdel that drops the binding with its last field
Backend_hdel_drop_empty(b, k, f) ==
    IF KvHas(b.hmap, k) /\ KvHas(Inner_of(b.hmap, k), f)
    THEN [backend |->
            [b EXCEPT !.hmap =
                IF {e \in Inner_of(b.hmap, k) : e.key # f} = {}
                THEN {e \in b.hmap : e.key # k}
                ELSE Rebind(b.hmap, k, {e \in Inner_of(b.hmap, k) : e.key # f})],
          removed |-> TRUE]
    ELSE [backend |-> b, removed |-> FALSE]

\* an hdel that reports a removal whenever the key has a hash
Backend_hdel_always(b, k, f) ==
    IF KvHas(b.hmap, k)
    THEN [backend |->
            [b EXCEPT !.hmap =
                Rebind(b.hmap, k, {e \in Inner_of(b.hmap, k) : e.key # f})],
          removed |-> TRUE]
    ELSE [backend |-> b, removed |-> FALSE]

\* an hdel that goes through entry(key).or_default() as hset does
Backend_hdel_binds(b, k, f) ==
    [backend |->
        [b EXCEPT !.hmap =
            Rebind(b.hmap, k,
                   IF KvHas(b.hmap, k)
                   THEN {e \in Inner_of(b.hmap, k) : e.key # f} ELSE {})],
     removed |-> KvHas(b.hmap, k) /\ KvHas(Inner_of(b.hmap, k), f)]

\* Backend::hdel: get(key).map(|v| v.remove(field).is_some()).unwrap_or(false)
Backend_hdel(b, k, f) ==
    IF KvHas(b.hmap, k) /\ KvHas(Inner_of(b.hmap, k), f)
    THEN [backend |->
            [b EXCEPT !.hmap =
                Rebind(b.hmap, k, {e \in Inner_of(b.hmap, k) : e.key # f})],
          removed |-> TRUE]
    ELSE [backend |-> b, removed |-> FALSE]

RECURSIVE OrderSensitive(_)
\* Hash for RespMap and for RespSet feeds the elements to the hasher in the
\* iteration order of the HashMap or HashSet inside, which differs from one
\* instance to the next (each has its own RandomState): two equal frames
\* with a Map or Set of two or more elements somewhere inside need not have
\* the same hash
OrderSensitive(f) ==
    CASE f.kind = "Array" ->
            \E i \in 1..Len(f.items) : OrderSensitive(f.items[i])
      [] f.kind = "Map" ->
            \/ Cardinality(f.elems) >= 2
            \/ \E e \in f.elems : OrderSensitive(e.items[1]) \/ OrderSensitive(e.items[2])
      [] f.kind = "Set" ->
            \/ Cardinality(f.elems) >= 2
            \/ \E e \in f.elems : OrderSensitive(e)
      [] OTHER -> FALSE

\* a DashSet<RespFrame> is a set of [member, copy]: equal frames whose
\* hashes differed sit in it side by side, numbered 1, 2, ...
Member(m, i) == [member |-> m, copy |-> i]

Copies(s, m) == Cardinality({e \in s : e.member = m})

\* the lookup of m among the members s: what the hash table can answer.  An
\* equal member is found when the hashes agree
DashSet_contains(s, m) ==
    IF Copies(s, m) = 0 THEN {FALSE}
    ELSE IF OrderSensitive(m) THEN {TRUE, FALSE}
    ELSE {TRUE}

\* the members bound to k (none when there is no binding)
Members_of(b, k) == IF KvHas(b.set, k) THEN Inner_of(b.set, k) ELSE {}

\* Backend::sadd: entry(key).or_default() and insert(member); the outcomes
Backend_sadd(b, k, m) ==
    {[backend |->
        [b EXCEPT !.set =
            Rebind(b.set, k,
                   IF found THEN Members_of(b, k)
                   ELSE Members_of(b, k)
                        \cup {Member(m, Copies(Members_of(b, k), m) + 1)})],
      changed |-> ~found] : found \in DashSet_contains(Members_of(b, k), m)}

\* Backend::srem: get(key).map(|v| v.remove(member).is_some())
\* .unwrap_or(false); the outcomes
Backend_srem(b, k, m) ==
    IF ~KvHas(b.set, k) THEN {[backend |-> b, changed |-> FALSE]}
    ELSE {[backend |->
            [b EXCEPT !.set =
                Rebind(b.set, k,
                       IF found
                       THEN Members_of(b, k)
                            \ {Member(m, Copies(Members_of(b, k), m))}
                       ELSE Members_of(b, k))],
           changed |-> found] : found \in DashSet_contains(Members_of(b, k), m)}

\* Backend::sismember: the outcomes
Backend_sismember(b, k, m) ==
    IF ~KvHas(b.set, k) THEN {FALSE}
    ELSE DashSet_contains(Members_of(b, k), m)

\* Backend::smembers: Some(members) or None
Backend_smembers(b, k) ==
    IF KvHas(b.set, k) THEN [some |-> TRUE, inner |-> Inner_of(b.set, k)]
    ELSE [some |-> FALSE, inner |-> {}]

\* ---------------------------------------------------------- command layer

MSG_UNKNOWN_HEAD ==
    <<"u", "n", "k", "n", "o", "w", "n", " ", "c", "o", "m", "m", "a", "n",
      "d", " ", "'">>

MSG_NOT_ARRAY ==
    <<"C", "o", "m", "m", "a", "n", "d", " ", "m", "u", "s", "t", " ", "b",
      "e", " ", "a", "n", " ", "A", "r", "r", "a", "y">>

MSG_NOT_BULK ==
    <<"C", "o", "m", "m", "a", "n", "d", " ", "m", "u", "s", "t", " ", "h",
      "a", "v", "e", " ", "a", " ", "B", "u", "l", "k", "S", "t", "r", "i",
      "n", "g", " ", "a", "s", " ", "t", "h", "e", " ", "f", "i", "r", "s",
      "t", " ", "a", "r", "g", "u", "m", "e", "n", "t">>

MSG_WRONG_ARGS ==
    <<"E", "R", "R", " ", "w", "r", "o", "n", "g", " ", "n", "u", "m", "b",
      "e", "r", " ", "o", "f", " ", "a", "r", "g", "u", "m", "e", "n", "t",
      "s", " ", "f", "o", "r", " ", "c", "o", "m", "m", "a", "n", "d">>

MSG_INTERNAL ==
    <<"E", "R", "R", " ", "i", "n", "t", "e", "r", "n", "a", "l", " ", "e",
      "r", "r", "o", "r">>

NAME_GET == <<"g", "e", "t">>

NAME_SET == <<"s", "e", "t">>

NAME_DEL == <<"d", "e", "l">>

NAME_HGET == <<"h", "g", "e", "t">>

NAME_HSET == <<"h", "s", "e", "t">>

NAME_HDEL == <<"h", "d", "e", "l">>

NAME_HMGET == <<"h", "m", "g", "e", "t">>

NAME_HMSET == <<"h", "m", "s", "e", "t">>

NAME_HGETALL == <<"h", "g", "e", "t", "a", "l", "l">>

NAME_HKEYS == <<"h", "k", "e", "y", "s">>

NAME_SADD == <<"s", "a", "d", "d">>

NAME_SISMEMBER == <<"s", "i", "s", "m", "e", "m", "b", "e", "r">>

NAME_SMEMBERS == <<"s", "m", "e", "m", "b", "e", "r", "s">>

NAME_SREM == <<"s", "r", "e", "m">>

\* the names Command::try_from dispatches on
SUPPORTED ==
    {NAME_GET, NAME_SET, NAME_DEL,
     NAME_HGET, NAME_HSET,
     NAME_HMGET, NAME_HMSET,
     NAME_HDEL, NAME_HGETALL, NAME_HKEYS, <<"e", "c", "h", "o">>,
     NAME_SADD, NAME_SISMEMBER, NAME_SMEMBERS, NAME_SREM}

\* Result<Command, CommandError>: err is the CommandError variant, msg its
\* text where the reply conversion uses it.  A command is a record with the
\* fields of all the command structs: key and value (Get, Set, Sismember,
\* Smembers), keys (Del), field (HGet), fields (HDel), pairs (HSet.values, a
\* sequence of field/value entries), values (the KeyValues of Sadd and
\* Srem), sort (HGetAll).
NoCmd ==
    [name |-> <<>>, key |-> <<>>, value |-> NoFrame, keys |-> <<>>,
     field |-> <<>>, fields |-> <<>>, pairs |-> <<>>, values |-> <<>>,
     sort |-> FALSE]

CmdOk(cmd) == [ok |-> TRUE, err |-> "", msg |-> <<>>, cmd |-> cmd]

CmdErr(err, msg) == [ok |-> FALSE, err |-> err, msg |-> msg, cmd |-> NoCmd]

MSG_EXPECTED_HEAD == <<"e", "x", "p", "e", "c", "t", "e", "d", " ">>

MSG_EXPECTED_GOT == <<",", " ", "g", "o", "t", " ">>

\* validate_command(value, [name]): CmdOk, or the error it returns
validate_command(v, name) ==
    IF Len(v) < 1 THEN CmdErr("InvalidCommandArguments", <<>>)
    ELSE IF v[1].kind # "BulkString" THEN CmdErr("InvalidCommand", MSG_NOT_BULK)
    ELSE IF to_ascii_lowercase(v[1].s) # name
    THEN CmdErr("InvalidCommand",
                MSG_EXPECTED_HEAD \o name \o MSG_EXPECTED_GOT
                \o from_utf8_lossy(v[1].s))
    ELSE CmdOk(NoCmd)

\* validate_args_fixed(value, [name], n); true when it returns Ok: the
\* arguments after the name are exactly n
validate_args_fixed(v, n) == Len(v) - 1 = n

\* validate_args(value, [name]); true when it returns Ok: there is at least
\* one argument after the name
validate_args(v) == Len(v) - 1 >= 1

Get_try_from(v) ==
    IF ~validate_command(v, NAME_GET).ok THEN validate_command(v, NAME_GET)
    ELSE IF ~validate_args_fixed(v, 1) THEN CmdErr("InvalidCommandArguments", <<>>)
    ELSE IF v[2].kind # "BulkString" THEN CmdErr("InvalidCommandArguments", <<>>)
    ELSE IF ~IsUtf8(v[2].s) THEN CmdErr("Utf8Error", <<>>)
    ELSE CmdOk([NoCmd EXCEPT !.name = NAME_GET, !.key = v[2].s])

Set_try_from(v) ==
    IF ~validate_command(v, NAME_SET).ok THEN validate_command(v, NAME_SET)
    ELSE IF ~validate_args_fixed(v, 2) THEN CmdErr("InvalidCommandArguments", <<>>)
    ELSE IF v[2].kind # "BulkString" THEN CmdErr("InvalidCommandArguments", <<>>)
    ELSE IF ~IsUtf8(v[2].s) THEN CmdErr("Utf8Error", <<>>)
    ELSE CmdOk([NoCmd EXCEPT !.name = NAME_SET, !.key = v[2].s, !.value = v[3]])

\* the first argument that is not a key, if any, decides the error
Del_try_from(v) ==
    LET bad == {i \in 2..Len(v) : v[i].kind # "BulkString" \/ ~IsUtf8(v[i].s)}
    IN  IF ~validate_command(v, NAME_DEL).ok THEN validate_command(v, NAME_DEL)
        ELSE IF ~validate_args(v) THEN CmdErr("InvalidCommandArguments", <<>>)
        ELSE IF bad # {}
        THEN (IF v[SetMin(bad)].kind # "BulkString"
              THEN CmdErr("InvalidCommandArguments", <<>>)
              ELSE CmdErr("Utf8Error", <<>>))
        ELSE CmdOk([NoCmd EXCEPT !.name = NAME_DEL,
                                 !.keys = [i \in 1..(Len(v) - 1) |-> v[i + 1].s]])

\* extract_args(value, start): the elements after the first start
extract_args(v, start) == Drop(v, start)

\* impl TryFrom<RespArray> for String
String_try_from(a) ==
    IF Len(a) # 1 THEN CmdErr("InvalidCommandArguments", <<>>)
    ELSE IF a[1].kind # "BulkString" THEN CmdErr("InvalidCommandArguments", <<>>)
    ELSE IF ~IsUtf8(a[1].s) THEN CmdErr("Utf8Error", <<>>)
    ELSE CmdOk([NoCmd EXCEPT !.key = a[1].s])

\* impl TryFrom<RespArray> for KeyValue
KeyValue_try_from(a) ==
    IF Len(a) # 2 THEN CmdErr("InvalidCommandArguments", <<>>)
    ELSE IF a[1].kind # "BulkString" THEN CmdErr("InvalidCommandArguments", <<>>)
    ELSE IF ~IsUtf8(a[1].s) THEN CmdErr("Utf8Error", <<>>)
    ELSE CmdOk([NoCmd EXCEPT !.key = a[1].s, !.value = a[2]])

\* impl TryFrom<RespArray> for KeyValues
KeyValues_try_from(a) ==
    IF Len(a) < 2 THEN CmdErr("InvalidCommandArguments", <<>>)
    ELSE IF a[1].kind # "BulkString" THEN CmdErr("InvalidCommandArguments", <<>>)
    ELSE IF ~IsUtf8(a[1].s) THEN CmdErr("Utf8Error", <<>>)
    ELSE CmdOk([NoCmd EXCEPT !.key = a[1].s, !.values = Drop(a, 1)])

\* the command struct around the arguments converted by conv
Named(name, conv) ==
    IF conv.ok THEN CmdOk([conv.cmd EXCEPT !.name = name]) ELSE conv

\* an arity check of HSET that lets every request through
validate_args_hmap_pair_any(v) == TRUE

\* validate_args_hmap_pair(value, [name]); true when it returns Ok (the body
\* is not among the sources; by the description of HSET: a key and one or
\* more whole pairs after the name)
validate_args_hmap_pair(v) == Len(v) - 1 >= 3 /\ (Len(v) - 1) % 2 = 1

\* the pairs the loop of HSet::try_from collects from the arguments after
\* the key: while let (Some(f), Some(v)) = (args.next(), args.next())
PairsOf(a) == [i \in 1..(Len(a) \div 2) |-> KvEntry(a[2 * i - 1].s, a[2 * i])]

\* the first field of the whole pairs of a that is no BulkString or no
\* UTF-8, 0 when there is none
FirstBadField(a) ==
    LET bad == {i \in 1..(Len(a) \div 2) :
                    a[2 * i - 1].kind # "BulkString" \/ ~IsUtf8(a[2 * i - 1].s)}
    IN  IF bad = {} THEN 0 ELSE 2 * SetMin(bad) - 1

\* the error for the argument a[i] that stopped a conversion
FieldError(a, i) ==
    IF a[i].kind # "BulkString" THEN CmdErr("InvalidCommandArguments", <<>>)
    ELSE CmdErr("Utf8Error", <<>>)

\* impl TryFrom<RespArray> for HSet
HSet_try_from(v) ==
    IF ~validate_command(v, NAME_HSET).ok THEN validate_command(v, NAME_HSET)
    ELSE IF ~validate_args_hmap_pair(v) THEN CmdErr("InvalidCommandArguments", <<>>)
    ELSE IF Len(v) < 2 \/ v[2].kind # "BulkString"
    THEN CmdErr("InvalidCommandArguments", <<>>)
    ELSE IF ~IsUtf8(v[2].s) THEN CmdErr("Utf8Error", <<>>)
    ELSE IF FirstBadField(Drop(v, 2)) # 0
    THEN FieldError(Drop(v, 2), FirstBadField(Drop(v, 2)))
    ELSE CmdOk([NoCmd EXCEPT !.name = NAME_HSET, !.key = v[2].s,
                             !.pairs = PairsOf(Drop(v, 2))])

\* impl TryFrom<RespArray> for Hmap
Hmap_try_from(a) ==
    IF Len(a) < 3 THEN CmdErr("InvalidCommandArguments", <<>>)
    ELSE IF (Len(a) - 1) % 2 # 0 THEN CmdErr("InvalidCommandArguments", <<>>)
    ELSE IF a[1].kind # "BulkString" THEN CmdErr("InvalidCommandArguments", <<>>)
    ELSE IF FirstBadField(Drop(a, 1)) # 0
    THEN FieldError(Drop(a, 1), FirstBadField(Drop(a, 1)))
    ELSE IF ~IsUtf8(a[1].s) THEN CmdErr("Utf8Error", <<>>)
    ELSE CmdOk([NoCmd EXCEPT !.key = a[1].s, !.pairs = PairsOf(Drop(a, 1))])

\* impl TryFrom<RespArray> for Hmset (the impl is not among the sources; it
\* is taken to follow the other commands: the name, then the arguments as
\* Hmap)
Hmset_try_from(v) ==
    IF ~validate_command(v, NAME_HMSET).ok THEN validate_command(v, NAME_HMSET)
    ELSE Named(NAME_HMSET, Hmap_try_from(extract_args(v, 1)))

\* impl TryFrom<RespArray> for KeyFields
KeyFields_try_from(a) ==
    IF Len(a) < 2 THEN CmdErr("InvalidCommandArguments", <<>>)
    ELSE IF a[1].kind # "BulkString" THEN CmdErr("InvalidCommandArguments", <<>>)
    ELSE IF ~IsUtf8(a[1].s) THEN CmdErr("Utf8Error", <<>>)
    ELSE IF \E i \in 2..Len(a) : a[i].kind # "BulkString"
    THEN CmdErr("InvalidCommandArguments", <<>>)
    ELSE IF \E i \in 2..Len(a) : ~IsUtf8(a[i].s) THEN CmdErr("Utf8Error", <<>>)
    ELSE CmdOk([NoCmd EXCEPT !.key = a[1].s,
                             !.fields = [i \in 1..(Len(a) - 1) |-> a[i + 1].s]])

\* impl TryFrom<RespArray> for Hmget (the impl is not among the sources; it
\* is taken to follow the other commands: the name, then the arguments as
\* KeyFields)
Hmget_try_from(v) ==
    IF ~validate_command(v, NAME_HMGET).ok THEN validate_command(v, NAME_HMGET)
    ELSE Named(NAME_HMGET, KeyFields_try_from(extract_args(v, 1)))

Sadd_try_from(v) ==
    IF ~validate_command(v, NAME_SADD).ok THEN validate_command(v, NAME_SADD)
    ELSE Named(NAME_SADD, KeyValues_try_from(extract_args(v, 1)))

Srem_try_from(v) ==
    IF ~validate_command(v, NAME_SREM).ok THEN validate_command(v, NAME_SREM)
    ELSE Named(NAME_SREM, KeyValues_try_from(extract_args(v, 1)))

Sismember_try_from(v) ==
    IF ~validate_command(v, NAME_SISMEMBER).ok
    THEN validate_command(v, NAME_SISMEMBER)
    ELSE Named(NAME_SISMEMBER, KeyValue_try_from(extract_args(v, 1)))

Smembers_try_from(v) ==
    IF ~validate_command(v, NAME_SMEMBERS).ok
    THEN validate_command(v, NAME_SMEMBERS)
    ELSE Named(NAME_SMEMBERS, String_try_from(extract_args(v, 1)))

\* impl TryFrom<RespArray> for Command.  The requests of this model name get,
\* set, del, hset, hmset, hmget, one of the four set commands or a command
\* outside SUPPORTED.
RespArray_try_into_Command(v) ==
    IF v = <<>> \/ v[1].kind # "BulkString"
    THEN CmdErr("InvalidCommand", MSG_NOT_BULK)
    ELSE LET cmd == to_ascii_lowercase(v[1].s)
         IN  CASE cmd = NAME_GET -> Get_try_from(v)
               [] cmd = NAME_SET -> Set_try_from(v)
               [] cmd = NAME_DEL -> Del_try_from(v)
               [] cmd = NAME_HSET -> HSet_try_from(v)
               [] cmd = NAME_HMSET -> Hmset_try_from(v)
               [] cmd = NAME_HMGET -> Hmget_try_from(v)
               [] cmd = NAME_SADD -> Sadd_try_from(v)
               [] cmd = NAME_SISMEMBER -> Sismember_try_from(v)
               [] cmd = NAME_SMEMBERS -> Smembers_try_from(v)
               [] cmd = NAME_SREM -> Srem_try_from(v)
               [] cmd \notin SUPPORTED ->
                    CmdErr("InvalidCommand",
                           MSG_UNKNOWN_HEAD \o from_utf8_lossy(v[1].s) \o <<"'">>)

\* impl TryFrom<RespFrame> for Command
Command_try_from(f) ==
    IF f.kind = "Array" THEN RespArray_try_into_Command(f.items)
    ELSE CmdErr("InvalidCommand", MSG_NOT_ARRAY)

\* impl From<CommandError> for RespFrame
CommandError_into_RespFrame(e) ==
    CASE e.err = "InvalidCommand" -> SimpleError(e.msg)
      [] e.err = "InvalidCommandArguments" -> SimpleError(MSG_WRONG_ARGS)
      [] OTHER -> SimpleError(MSG_INTERNAL)

RESP_OK == SimpleString(<<"O", "K">>)

RECURSIVE DelLoop(_, _, _), DelStep(_, _, _)
\* the loop of Del::execute: the store and the count after the keys
DelLoop(b, keys, count) ==
    IF keys = <<>> THEN [backend |-> b, count |-> count]
    ELSE DelStep(Backend_del(b, Head(keys)), Tail(keys), count)

\* one turn of that loop on what Backend::del returned
DelStep(d, keys, count) ==
    DelLoop(d.backend, keys, IF d.removed THEN count + 1 ELSE count)

RECURSIVE HSetLoop(_, _, _)
\* the loop of HSet::execute: the store after the pairs
HSetLoop(b, k, pairs) ==
    IF pairs = <<>> THEN b
    ELSE HSetLoop(Backend_hset(b, k, Head(pairs).key, Head(pairs).value), k,
                  Tail(pairs))

RECURSIVE HDelLoop(_, _, _, _), HDelStep(_, _, _, _)
\* the loop of HDel::execute: the store and the count after the fields
HDelLoop(b, k, fields, count) ==
    IF fields = <<>> THEN [backend |-> b, count |-> count]
    ELSE HDelStep(Backend_hdel(b, k, Head(fields)), k, Tail(fields), count)

\* one turn of that loop on what Backend::hdel returned
HDelStep(d, k, fields, count) ==
    HDelLoop(d.backend, k, fields, IF d.removed THEN count + 1 ELSE count)

\* the bytes of the strings of this model, in ascending order of their value
BYTE_ORDER == DIGITS \o UPPER \o LOWER \o <<"xFF">>

byte_rank(c) == CHOOSE i \in 1..Len(BYTE_ORDER) : BYTE_ORDER[i] = c

RECURSIVE str_le(_, _)
\* a.cmp(b) != Greater for two Strings: byte-wise lexicographic order
str_le(a, b) ==
    IF a = <<>> THEN TRUE
    ELSE IF b = <<>> THEN FALSE
    ELSE IF Head(a) # Head(b) THEN byte_rank(Head(a)) < byte_rank(Head(b))
    ELSE str_le(Tail(a), Tail(b))

RECURSIVE sort_insert(_, _)
\* x goes behind the elements of the sorted acc whose key is not greater
sort_insert(acc, x) ==
    IF acc = <<>> THEN <<x>>
    ELSE IF str_le(Head(acc).key, x.key) THEN <<Head(acc)>> \o sort_insert(Tail(acc), x)
    ELSE <<x>> \o acc

RECURSIVE sort_from(_, _)
sort_from(acc, data) ==
    IF data = <<>> THEN acc
    ELSE sort_from(sort_insert(acc, Head(data)), Tail(data))

\* data left as the iteration produced it
sort_by_key_skip(data) == data

\* data.sort_by(|a, b| a.0.cmp(&b.0)): a stable sort by key
sort_by_key(data) == sort_from(<<>>, data)

RECURSIVE flat_pairs(_)
\* flat_map(|(k, v)| vec![BulkString::from(k).into(), v])
flat_pairs(data) ==
    IF data = <<>> THEN <<>>
    ELSE <<BulkString(Head(data).key), Head(data).value>> \o flat_pairs(Tail(data))

\* HGetAll::execute: the replies it can give, one per iteration order of the
\* inner map
HGetAll_execute(cmd, b) ==
    IF ~KvHas(b.hmap, cmd.key) THEN {RespArray(<<>>)}
    ELSE {RespArray(flat_pairs(IF cmd.sort THEN sort_by_key(data) ELSE data)) :
            data \in Orderings(Inner_of(b.hmap, cmd.key))}

\* HKeys::execute: the replies it can give
HKeys_execute(cmd, b) ==
    IF ~KvHas(b.hmap, cmd.key) THEN {RespArray(<<>>)}
    ELSE {RespArray([i \in 1..Len(data) |-> BulkString(data[i].key)]) :
            data \in Orderings(Inner_of(b.hmap, cmd.key))}

\* the result of Backend::hget as a reply element
HGetReply(b, k, f) ==
    IF Backend_hget(b, k, f) = NoFrame THEN RespNull ELSE Backend_hget(b, k, f)

\* an Hmget::execute that leaves out the fields that are absent
Hmget_execute_skip_absent(cmd, b) ==
    RespArray(SelectSeq([i \in 1..Len(cmd.fields) |-> HGetReply(b, cmd.key, cmd.fields[i])],
                        LAMBDA r : r # RespNull))

\* Hmget::execute (the impl is not among the sources; by the description of
\* the command: one Backend::hget per field in request order, Null for None)
Hmget_execute(cmd, b) ==
    RespArray([i \in 1..Len(cmd.fields) |-> HGetReply(b, cmd.key, cmd.fields[i])])

\* one turn of the loop of Sadd::execute or Srem::execute from outcome o,
\* on the outcomes rs of Backend::sadd or Backend::srem
CountStep(o, rs) ==
    {[backend |-> r.backend,
      count |-> IF r.changed THEN o.count + 1 ELSE o.count] : r \in rs}

RECURSIVE SaddLoop(_, _, _)
\* the loop of Sadd::execute: the outcomes (store and count) after the
\* members, from the outcomes outs so far
SaddLoop(outs, k, members) ==
    IF members = <<>> THEN outs
    ELSE SaddLoop(UNION {CountStep(o, Backend_sadd(o.backend, k, Head(members))) :
                            o \in outs},
                  k, Tail(members))

RECURSIVE SremLoop(_, _, _)
\* the loop of Srem::execute
SremLoop(outs, k, members) ==
    IF members = <<>> THEN outs
    ELSE SremLoop(UNION {CountStep(o, Backend_srem(o.backend, k, Head(members))) :
                            o \in outs},
                  k, Tail(members))

\* a Smembers::execute that replies Null when the set has no member
Smembers_execute_null(cmd, b) ==
    IF Members_of(b, cmd.key) = {} THEN {RespNull}
    ELSE {RespArray([i \in 1..Len(data) |-> data[i].member]) :
            data \in Orderings(Backend_smembers(b, cmd.key).inner)}

\* Smembers::execute: the replies it can give, one per iteration order of
\* the DashSet
Smembers_execute(cmd, b) ==
    IF ~Backend_smembers(b, cmd.key).some THEN {RespArray(<<>>)}
    ELSE {RespArray([i \in 1..Len(data) |-> data[i].member]) :
            data \in Orderings(Backend_smembers(b, cmd.key).inner)}

\* a command that leaves the store alone and replies one of rs
Replies(rs, b) == {[reply |-> r, backend |-> b] : r \in rs}

\* the outcomes of a counting loop as replies
Counted(outs) == {[reply |-> Integer(o.count), backend |-> o.backend] : o \in outs}

\* CommandExecutor::execute: the outcomes, each a reply frame and the store
\* afterwards
Command_execute(cmd, b) ==
    CASE cmd.name = NAME_GET ->
            Replies({IF KvHas(b.map, cmd.key) THEN Backend_get(b, cmd.key)
                     ELSE RespNull}, b)
      [] cmd.name = NAME_SET ->
            {[reply |-> RESP_OK, backend |-> Backend_set(b, cmd.key, cmd.value)]}
      [] cmd.name = NAME_DEL -> Counted({DelLoop(b, cmd.keys, 0)})
      [] cmd.name = NAME_HSET ->
            {[reply |-> Integer(Len(cmd.pairs)),
              backend |-> HSetLoop(b, cmd.key, cmd.pairs)]}
      [] cmd.name = NAME_HGET ->
            Replies({IF Backend_hget(b, cmd.key, cmd.field) = NoFrame THEN RespNull
                     ELSE Backend_hget(b, cmd.key, cmd.field)}, b)
      [] cmd.name = NAME_HDEL -> Counted({HDelLoop(b, cmd.key, cmd.fields, 0)})
      [] cmd.name = NAME_HMGET -> Replies({Hmget_execute(cmd, b)}, b)
      [] cmd.name = NAME_HMSET ->
            {[reply |-> RESP_OK, backend |-> HSetLoop(b, cmd.key, cmd.pairs)]}
      [] cmd.name = NAME_HGETALL -> Replies(HGetAll_execute(cmd, b), b)
      [] cmd.name = NAME_HKEYS -> Replies(HKeys_execute(cmd, b), b)
      [] cmd.name = NAME_SADD ->
            Counted(SaddLoop({[backend |-> b, count |-> 0]}, cmd.key, cmd.values))
      [] cmd.name = NAME_SREM ->
            Counted(SremLoop({[backend |-> b, count |-> 0]}, cmd.key, cmd.values))
      [] cmd.name = NAME_SISMEMBER ->
            Replies({Integer(IF x THEN 1 ELSE 0) :
                        x \in Backend_sismember(b, cmd.key, cmd.value)}, b)
      [] cmd.name = NAME_SMEMBERS -> Replies(Smembers_execute(cmd, b), b)

\* a codec that reports every decode error as "no frame yet"
RespCodec_decode_swallow(src) ==
    LET r == RespFrame_decode(src)
    IN  [item |-> IF r.res = "Ok" THEN "Some" ELSE "None",
         res |-> r.res, frame |-> r.frame, rest |-> r.rest]

\* impl Decoder for RespCodec: Ok(Some(frame)), Ok(None) or Err(e); a panic
\* inside RespFrame::decode unwinds through it.  res keeps what the frame
\* decoder reported.
RespCodec_decode(src) ==
    LET r == RespFrame_decode(src)
    IN  [item |-> CASE r.res = "Ok" -> "Some"
                    [] r.res = "NotComplete" -> "None"
                    [] r.res = "Invalid" -> "Err"
                    [] r.res = "Panic" -> "Panic",
         res |-> r.res, frame |-> r.frame, rest |-> r.rest]

\* ----------------------------------------------------------------- bounds

\* children of a generated Array, members of a Set, entries of a Map
MaxItems == 2

\* socket reads that deliver bytes on one connection
MaxReads == 2

\* requests sent back-to-back on one connection
MaxPipeline == 2

\* commands executed one after the other on one store
MaxOps == 3

\* keys of a Del, pairs of an HSet, fields of an HDel, members of a Sadd or
\* Srem
MaxArgs == 2

\* members one DashSet holds, equal members with different hashes included
MaxMembers == 3

\* ----------------------------------------------------------------- inputs

SeqsUpTo(S, n) == UNION {[1..k -> S] : k \in 0..n}

SubsetsUpTo(S, n) == {x \in SUBSET S : Cardinality(x) <= n}

Texts == {<<>>, <<"O", "K">>}

Blobs == {<<>>, <<"a", "b">>, <<CR, LF>>}

Atoms ==
    {SimpleString(t) : t \in Texts} \cup {SimpleError(t) : t \in Texts}
    \cup {Integer(n) : n \in {0, 7, 0 - 12}}
    \cup {BulkString(b) : b \in Blobs}
    \cup {RespNull, Boolean(TRUE), Boolean(FALSE)}
    \cup {RespDouble(<<"1", ".", "5">>), RespDouble(TXT_NAN),
          RespDouble(<<"-">> \o TXT_INF)}

Children ==
    {BulkString(<<"a", "b">>), BulkString(<<CR, LF>>), Boolean(TRUE), RespNull}

MapKeys == {BulkString(<<"a", "b">>), Integer(7), Boolean(FALSE)}

MapVals == {RespNull, BulkString(<<>>)}

Composites ==
    {RespArray(c) : c \in SeqsUpTo(Children, MaxItems)}
    \cup {RespSet(m) : m \in SubsetsUpTo(Children, MaxItems)}
    \cup UNION {{RespMap({MapEntry(k, f[k]) : k \in K}) : f \in [K -> MapVals]} :
                K \in SubsetsUpTo(MapKeys, MaxItems)}

Inner ==
    {RespArray(<<>>), RespArray(<<BulkString(<<"a", "b">>), RespNull>>),
     RespSet({Boolean(TRUE)}), RespMap({}),
     RespArray(<<RespArray(<<Integer(7)>>)>>)}

Nested ==
    {RespArray(<<c>>) : c \in Inner}
    \cup {RespArray(<<c, Boolean(FALSE)>>) : c \in Inner}
    \cup {RespSet({c}) : c \in Inner}
    \cup {RespMap({MapEntry(BulkString(<<"a", "b">>), c)}) : c \in Inner}

FrameSet == Atoms \cup Composites \cup Nested

\* a frame on the wire: the frame a decoder should return, and its bytes
Piece(f, e) == [frame |-> f, enc |-> e]

EncodedPieces(F) == UNION {{Piece(f, e) : e \in RespFrame_encode(f)} : f \in F}

LEGACY_BULK == <<"$">> \o RESP2_NULL

LEGACY_ARRAY == <<"*">> \o RESP2_NULL

LegacyPieces ==
    {Piece(BulkString(<<>>), LEGACY_BULK), Piece(RespArray(<<>>), LEGACY_ARRAY)}

\* a legacy null shorthand as a child of an Array, a Set and a Map
NestedLegacyPieces ==
    {Piece(RespArray(<<BulkString(<<>>)>>), <<"*", "1">> \o CRLF \o LEGACY_BULK),
     Piece(RespArray(<<RespArray(<<>>)>>), <<"*", "1">> \o CRLF \o LEGACY_ARRAY),
     Piece(RespArray(<<BulkString(<<>>), RespArray(<<>>)>>),
           <<"*", "2">> \o CRLF \o LEGACY_BULK \o LEGACY_ARRAY),
     Piece(RespSet({BulkString(<<>>)}), <<"~", "1">> \o CRLF \o LEGACY_BULK),
     Piece(RespSet({RespArray(<<>>)}), <<"~", "1">> \o CRLF \o LEGACY_ARRAY),
     Piece(RespMap({MapEntry(BulkString(<<>>), RespArray(<<>>))}),
           <<"%", "1">> \o CRLF \o LEGACY_BULK \o LEGACY_ARRAY)}

FirstPieces == EncodedPieces(FrameSet) \cup LegacyPieces \cup NestedLegacyPieces

SecondPieces ==
    EncodedPieces({Integer(7), RespArray(<<BulkString(<<"a", "b">>)>>)})
    \cup {Piece(RespArray(<<>>), LEGACY_ARRAY)}

CorruptBase ==
    EncodedPieces({Boolean(TRUE), Integer(7), BulkString(<<"a", "b">>),
                   RespArray(<<Boolean(TRUE)>>), RespArray(<<RespNull>>),
                   RespSet({BulkString(<<"a", "b">>)})})

CorruptBytes == {"x", "2"}

\* an input: the pieces sent, and one byte overwritten at cpos (0: none)
Input(pieces, cpos, cbyte) == [pieces |-> pieces, cpos |-> cpos, cbyte |-> cbyte]

NoInput == Input(<<>>, 0, "")

RECURSIVE Concat(_)
Concat(pieces) ==
    IF pieces = <<>> THEN <<>> ELSE Head(pieces).enc \o Concat(Tail(pieces))

WireOf(in) ==
    IF in.cpos = 0 THEN Concat(in.pieces)
    ELSE [Concat(in.pieces) EXCEPT ![in.cpos] = in.cbyte]

\* lengths with a sign that are no legacy shorthand: no frame is expected
SignedLengthPieces ==
    {Piece(NoFrame, <<"$", "+", "2", CR, LF, "a", "b", CR, LF>>),
     Piece(NoFrame, <<"*", "+", "1", CR, LF, ":", "7", CR, LF>>),
     Piece(NoFrame, <<"%", "+", "0", CR, LF>>),
     Piece(NoFrame, <<"~", "+", "0", CR, LF>>),
     Piece(NoFrame, <<"$", "-", "2", CR, LF>>),
     Piece(NoFrame, <<"*", "-", "2", CR, LF>>)}

\* Integers with a sign
SignedIntegerPieces ==
    {Piece(Integer(7), <<":", "+", "7", CR, LF>>),
     Piece(Integer(0 - 7), <<":", "-", "7", CR, LF>>)}

\* an Array whose first child has a bad first byte, a bad length line or a
\* bad Integer line, and an Array that announces a child more than follow
MISSING_CHILD ==
    <<"*", "3", CR, LF, "+", "s", CR, LF, ":", "1", CR, LF, "s", "e", "t", CR, LF>>

BadChildPieces ==
    {Piece(NoFrame, <<"*", "1", CR, LF, "x", "7", CR, LF>>),
     Piece(NoFrame, <<"*", "1", CR, LF, "$", "x", CR, LF>>),
     Piece(NoFrame, <<"*", "1", CR, LF, ":", "x", CR, LF>>),
     Piece(NoFrame, MISSING_CHILD)}

DecInputs ==
    {Input(<<p>>, 0, "") :
        p \in FirstPieces \cup SignedLengthPieces \cup SignedIntegerPieces
              \cup BadChildPieces}
    \cup {Input(<<p, q>>, 0, "") : p \in FirstPieces, q \in SecondPieces}
    \cup UNION {{in \in {Input(<<p>>, i, b) : i \in 1..Len(p.enc), b \in CorruptBytes} :
                    in.cbyte # p.enc[in.cpos]} : p \in CorruptBase}

\* ------------------------------------------------------------------ state

VARIABLES
    input,      \* the pieces a client sends (fixed by Init)
    wire,       \* bytes sent and not yet read into buf
    buf,        \* the BytesMut the decoder works on
    last,       \* the latest RespFrame::decode call on buf, if no byte came since
    decoded,    \* frames decoded so far
    conn,       \* stream_handler: "open", "closed" (Ok), "error" (Err), "panic"
    pc,         \* the framed stream: "read" waits for bytes, "decode" has some
    replies,    \* frames passed to framed.send
    sent,       \* bytes written to the socket
    kv,         \* Backend.map
    hmap,       \* Backend.hmap
    sets,       \* Backend.set
    nreads,     \* socket reads that delivered bytes
    req,        \* a request frame handed to Command::try_from
    out,        \* what Command::try_from made of req
    op,         \* the latest command executed on the store, with its reply
    nops,       \* commands executed on the store
    tasks,      \* the connection tasks that share the store, each with the
                \* store calls it has left and the ones it has made
    shardOf,    \* the shard of the inner DashMap or DashSet an entry hashes to
    built       \* a HashSet or HashMap of frames under construction

vars ==
    <<input, wire, buf, last, decoded, conn, pc, replies, sent, kv, hmap, sets,
      nreads, req, out, op, nops, tasks, shardOf, built>>

netVars == <<conn, pc, replies, sent, kv, hmap, sets, nreads>>

\* the store of the process
TheBackend == [map |-> kv, hmap |-> hmap, set |-> sets]

\* no container under construction
NoBuild == [kind |-> "None", todo |-> <<>>, done |-> <<>>, slots |-> {}]

concVars == <<tasks, shardOf, built>>

cmdVars == <<req, out, op, nops, concVars>>

NoResult ==
    [res |-> "None", frame |-> NoFrame, before |-> <<>>, after |-> <<>>, nth |-> 0]

NoOut == [done |-> FALSE, result |-> CmdErr("", <<>>), reply |-> NoFrame]

NoOp == [cmd |-> NoCmd, reply |-> NoFrame, before |-> EmptyBackend]

\* --------------------------------------------------- the decoder on a buffer

Init ==
    /\ input \in DecInputs
    /\ wire = WireOf(input)
    /\ buf = <<>>
    /\ last = NoResult
    /\ decoded = <<>>
    /\ conn = "none" /\ pc = "none" /\ replies = <<>> /\ sent = <<>>
    /\ kv = {} /\ hmap = {} /\ sets = {} /\ nreads = 0
    /\ req = NoFrame /\ out = NoOut /\ op = NoOp /\ nops = 0
    /\ tasks = <<>> /\ shardOf = <<>> /\ built = NoBuild

\* buf.extend_from_slice: k more bytes arrive
Feed(k) ==
    /\ last.res # "Panic"
    /\ k \in 1..Len(wire)
    /\ buf' = buf \o Take(wire, k)
    /\ wire' = Drop(wire, k)
    /\ last' = NoResult
    /\ UNCHANGED <<input, decoded, netVars, cmdVars>>

\* RespFrame::decode(&mut buf)
Decode ==
    /\ last.res # "Panic"
    /\ LET r == RespFrame_decode(buf)
       IN  /\ last' = [res |-> r.res, frame |-> r.frame, before |-> buf,
                       after |-> r.rest, nth |-> Len(decoded)]
           /\ buf' = r.rest
           /\ decoded' = IF r.res = "Ok" THEN Append(decoded, r.frame) ELSE decoded
    /\ UNCHANGED <<input, wire, netVars, cmdVars>>

Next == (\E k \in 1..Len(wire) : Feed(k)) \/ Decode

Spec == Init /\ [][Next]_vars

\* ------------------------------------------------- requests on a connection

NAME_UPPER_SET == <<"S", "E", "T">>

NAME_UPPER_GET == <<"G", "E", "T">>

NAME_UPPER_DEL == <<"D", "E", "L">>

\* a request: a command name and its arguments as an Array of BulkStrings
Request(name, args) ==
    RespArray(<<BulkString(name)>> \o [i \in 1..Len(args) |-> BulkString(args[i])])

\* the bytes a client writes for frame f
WirePiece(f) == Piece(f, CHOOSE e \in RespFrame_encode(f) : TRUE)

\* bytes that are no frame
RawPiece(bytes) == Piece(NoFrame, bytes)

SCENARIO_SET ==
    Request(NAME_UPPER_SET,
            <<<<"n", "a", "m", "e">>, <<"v", "i", "c", "t", "o", "r", "y">>>>)

CommandPieces ==
    {WirePiece(Request(NAME_UPPER_SET, <<<<"k">>, <<"v">>>>)),
     WirePiece(Request(NAME_UPPER_GET, <<<<"k">>>>)),
     WirePiece(Request(NAME_UPPER_DEL, <<<<"k">>>>))}

NAME_UPPER_SISMEMBER == <<"S", "I", "S", "M", "E", "M", "B", "E", "R">>

NAME_UPPER_SMEMBERS == <<"S", "M", "E", "M", "B", "E", "R", "S">>

\* DEL of a present key and then of a key that is not UTF-8
DEL_BAD_SECOND == Request(NAME_UPPER_DEL, <<<<"k">>, <<"xFF">>>>)

\* an unknown command, a frame that is no Array, a command with an argument
\* too few, a command whose key is not UTF-8, a command whose second key is
\* not UTF-8
RejectedPieces ==
    {WirePiece(Request(<<"f", "o", "o">>, <<>>)),
     WirePiece(SimpleString(<<"O", "K">>)),
     WirePiece(Request(NAME_UPPER_SISMEMBER, <<<<"k">>>>)),
     WirePiece(Request(NAME_UPPER_SMEMBERS, <<<<"xFF">>>>)),
     WirePiece(DEL_BAD_SECOND)}

MalformedPieces ==
    {RawPiece(<<"x", CR, LF>>), RawPiece(<<"$", "a", CR, LF>>),
     RawPiece(<<":", "x", CR, LF>>)}

NetPieces == CommandPieces \cup RejectedPieces \cup MalformedPieces

\* what a client sends on one connection
NetInputs ==
    {Input(ps, 0, "") : ps \in SeqsUpTo(NetPieces, MaxPipeline) \ {<<>>}}
    \cup {Input(<<WirePiece(SCENARIO_SET)>>, 0, "")}

\* ------------------------------------------------------- connection handler

\* a handler that loses the store when Command::try_from fails
Handled_reset(c, b) ==
    IF ~c.ok THEN {[ok |-> FALSE, reply |-> NoFrame, backend |-> EmptyBackend]}
    ELSE {[ok |-> TRUE, reply |-> o.reply, backend |-> o.backend] :
            o \in Command_execute(c.cmd, b)}

\* what request_handler returns for what Command::try_from returned: the
\* outcomes
Handled(c, b) ==
    IF ~c.ok THEN {[ok |-> FALSE, reply |-> NoFrame, backend |-> b]}
    ELSE {[ok |-> TRUE, reply |-> o.reply, backend |-> o.backend] :
            o \in Command_execute(c.cmd, b)}

\* request_handler: Err when Command::try_from fails, else the reply of
\* cmd.execute and the store afterwards
request_handler(frame, b) == Handled(Command_try_from(frame), b)

\* the replies of request_handler for the frames in order, starting from
\* store b with replies acc, and the store afterwards: the outcomes
RECURSIVE HandleAll(_, _, _)
HandleAll(frames, b, acc) ==
    IF frames = <<>> THEN {[replies |-> acc, backend |-> b]}
    ELSE UNION {HandleAll(Tail(frames), h.backend, Append(acc, h.reply)) :
                    h \in request_handler(Head(frames), b)}

\* the frames of the pieces of an input
FramesOf(in) == [i \in 1..Len(in.pieces) |-> in.pieces[i].frame]

\* every piece of the input is a request that Command::try_from accepts
AllCommands(in) ==
    \A i \in 1..Len(in.pieces) :
        in.pieces[i].frame.kind = "Array" /\ Command_try_from(in.pieces[i].frame).ok

NetInit ==
    /\ input \in NetInputs
    /\ wire = WireOf(input)
    /\ buf = <<>>
    /\ last = NoResult
    /\ decoded = <<>>
    /\ conn = "open" /\ pc = "read" /\ replies = <<>> /\ sent = <<>>
    /\ kv = {} /\ hmap = {} /\ sets = {} /\ nreads = 0
    /\ req = NoFrame /\ out = NoOut /\ op = NoOp /\ nops = 0
    /\ tasks = <<>> /\ shardOf = <<>> /\ built = NoBuild

\* the socket read of Framed: k bytes arrive; the last read the model allows
\* delivers all that is left
Read(k) ==
    /\ conn = "open" /\ pc = "read"
    /\ nreads < MaxReads
    /\ k \in 1..Len(wire)
    /\ nreads + 1 = MaxReads => k = Len(wire)
    /\ buf' = buf \o Take(wire, k)
    /\ wire' = Drop(wire, k)
    /\ nreads' = nreads + 1
    /\ pc' = "decode"
    /\ last' = NoResult
    /\ UNCHANGED <<input, decoded, conn, replies, sent, kv, hmap, sets, cmdVars>>

\* the socket read that returns 0 bytes: the client has sent everything and
\* closed; Framed then calls decode_eof
Eof ==
    /\ conn = "open" /\ pc = "read"
    /\ wire = <<>>
    /\ pc' = "eof"
    /\ last' = NoResult
    /\ UNCHANGED <<input, wire, buf, decoded, conn, replies, sent, kv, hmap,
                   sets, nreads, cmdVars>>

\* Some(Ok(frame)) of stream_handler: request_handler(req).await? and
\* framed.send(res.frame).await?
ServeFrame(frame, h) ==
    /\ decoded' = Append(decoded, frame)
    /\ kv' = h.backend.map /\ hmap' = h.backend.hmap /\ sets' = h.backend.set
    /\ IF h.ok
       THEN /\ replies' = Append(replies, h.reply)
            /\ \E e \in RespFrame_encode(h.reply) : sent' = sent \o e
            /\ UNCHANGED <<conn, pc>>
       ELSE /\ conn' = "error"
            /\ UNCHANGED <<replies, sent, pc>>

\* one turn of the loop of stream_handler on what RespCodec::decode (or, at
\* end of stream, decode_eof) made of the buffer
ServeResult(r) ==
    /\ last' = [res |-> r.res, frame |-> r.frame, before |-> buf,
                after |-> r.rest, nth |-> Len(decoded)]
    /\ buf' = r.rest
    /\ CASE r.item = "Some" ->
              \E h \in request_handler(r.frame, TheBackend) : ServeFrame(r.frame, h)
         [] r.item = "None" ->
              /\ IF pc = "decode"
                 THEN pc' = "read" /\ conn' = conn
                 ELSE pc' = pc /\ conn' = IF r.rest = <<>> THEN "closed" ELSE "error"
              /\ UNCHANGED <<decoded, replies, sent, kv, hmap, sets>>
         [] r.item = "Err" ->
              /\ conn' = "error"
              /\ UNCHANGED <<decoded, replies, sent, kv, hmap, sets, pc>>
         [] r.item = "Panic" ->
              /\ conn' = "panic"
              /\ UNCHANGED <<decoded, replies, sent, kv, hmap, sets, pc>>

\* framed.next().await with bytes in the buffer, and what the loop does with
\* the item
Serve ==
    /\ conn = "open" /\ pc \in {"decode", "eof"}
    /\ ServeResult(RespCodec_decode(buf))
    /\ UNCHANGED <<input, wire, nreads, cmdVars>>

NetNext == (\E k \in 1..Len(wire) : Read(k)) \/ Eof \/ Serve

SpecNet == NetInit /\ [][NetNext]_vars

\* ------------------------------------------- Command::try_from on a request

CmdNames ==
    {NAME_UPPER_GET, NAME_GET, <<"G", "e", "T">>, NAME_UPPER_SET, NAME_UPPER_DEL,
     <<"f", "o", "o">>, <<"P", "I", "N", "G">>, <<"x", "xFF">>}

CmdArgs ==
    {BulkString(<<"k">>), BulkString(<<"K">>), BulkString(<<"v">>),
     BulkString(<<"xFF">>), Integer(7)}

NAME_UPPER_HSET == <<"H", "S", "E", "T">>

NAME_UPPER_HMSET == <<"H", "M", "S", "E", "T">>

\* the arguments of the requests with pairs: a key or field, a value that is
\* no BulkString, a string that is not UTF-8
PairArgs == {BulkString(<<"k">>), Integer(7), BulkString(<<"xFF">>)}

\* HSET and HMSET with no argument up to a key, whole pairs and a field
\* without a value
PairRequests ==
    {RespArray(<<BulkString(n)>> \o a) :
        n \in {NAME_UPPER_HSET, NAME_UPPER_HMSET}, a \in SeqsUpTo(PairArgs, 2 * MaxItems)}

CmdRequests ==
    {RespArray(<<BulkString(n)>> \o a) : n \in CmdNames, a \in SeqsUpTo(CmdArgs, MaxItems)}
    \cup PairRequests
    \cup {RespArray(<<>>), RespArray(<<Integer(7)>>), SimpleString(<<"O", "K">>),
          BulkString(NAME_UPPER_GET), RespNull}

CmdInit ==
    /\ req \in CmdRequests
    /\ out = NoOut /\ op = NoOp /\ nops = 0
    /\ tasks = <<>> /\ shardOf = <<>> /\ built = NoBuild
    /\ input = NoInput /\ wire = <<>> /\ buf = <<>> /\ last = NoResult
    /\ decoded = <<>>
    /\ conn = "none" /\ pc = "none" /\ replies = <<>> /\ sent = <<>>
    /\ kv = {} /\ hmap = {} /\ sets = {} /\ nreads = 0

\* Command::try_from(frame), and RespFrame::from(e) for the error it returns
TryFrom ==
    /\ ~out.done
    /\ out' = [done |-> TRUE,
               result |-> Command_try_from(req),
               reply |-> IF Command_try_from(req).ok THEN NoFrame
                         ELSE CommandError_into_RespFrame(Command_try_from(req))]
    /\ UNCHANGED <<req, op, nops, concVars, input, wire, buf, last, decoded,
                   netVars>>

CmdNext == TryFrom

SpecCmd == CmdInit /\ [][CmdNext]_vars

\* ------------------------------------------------- commands on one store

\* the command structs
Get(k) == [NoCmd EXCEPT !.name = NAME_GET, !.key = k]

Set(k, v) == [NoCmd EXCEPT !.name = NAME_SET, !.key = k, !.value = v]

Del(ks) == [NoCmd EXCEPT !.name = NAME_DEL, !.keys = ks]

HSet(k, ps) == [NoCmd EXCEPT !.name = NAME_HSET, !.key = k, !.pairs = ps]

HGet(k, f) == [NoCmd EXCEPT !.name = NAME_HGET, !.key = k, !.field = f]

HDel(k, fs) == [NoCmd EXCEPT !.name = NAME_HDEL, !.key = k, !.fields = fs]

Hmget(k, fs) == [NoCmd EXCEPT !.name = NAME_HMGET, !.key = k, !.fields = fs]

HGetAll(k, sort) == [NoCmd EXCEPT !.name = NAME_HGETALL, !.key = k, !.sort = sort]

HKeys(k) == [NoCmd EXCEPT !.name = NAME_HKEYS, !.key = k]

Sadd(k, ms) == [NoCmd EXCEPT !.name = NAME_SADD, !.key = k, !.values = ms]

Srem(k, ms) == [NoCmd EXCEPT !.name = NAME_SREM, !.key = k, !.values = ms]

Sismember(k, m) == [NoCmd EXCEPT !.name = NAME_SISMEMBER, !.key = k, !.value = m]

Smembers(k) == [NoCmd EXCEPT !.name = NAME_SMEMBERS, !.key = k]

StoreKeys == {<<"k">>, <<"j">>}

\* the key the hash and set commands use; the string commands use it too
SHARED_KEY == <<"k">>

StoreValues == {BulkString(<<"v">>), Integer(7)}

StoreFields == {<<"a", "b">>, <<"B">>}

\* the same field with two values, and a second field
StorePairs ==
    {KvEntry(<<"a", "b">>, BulkString(<<"v">>)), KvEntry(<<"a", "b">>, Integer(7)),
     KvEntry(<<"B">>, BulkString(<<"v">>))}

\* a Map of two entries: its hash depends on the instance
MAP_MEMBER ==
    RespMap({MapEntry(Integer(1), Integer(1)), MapEntry(Integer(2), Integer(2))})

StoreMembers == {BulkString(<<"v">>), MAP_MEMBER}

\* the non-empty argument lists
ArgLists(S) == SeqsUpTo(S, MaxArgs) \ {<<>>}

MapCommands ==
    {Get(k) : k \in StoreKeys}
    \cup {Set(k, v) : k \in StoreKeys, v \in StoreValues}
    \cup {Del(ks) : ks \in ArgLists(StoreKeys)}

HashCommands ==
    {HSet(SHARED_KEY, ps) : ps \in ArgLists(StorePairs)}
    \cup {HGet(SHARED_KEY, f) : f \in StoreFields}
    \cup {HDel(SHARED_KEY, fs) : fs \in ArgLists(StoreFields)}
    \cup {Hmget(SHARED_KEY, fs) : fs \in ArgLists(StoreFields)}
    \cup {HGetAll(SHARED_KEY, sort) : sort \in BOOLEAN}
    \cup {HKeys(SHARED_KEY)}

SetCommands ==
    {Sadd(SHARED_KEY, ms) : ms \in ArgLists(StoreMembers)}
    \cup {Srem(SHARED_KEY, ms) : ms \in ArgLists(StoreMembers)}
    \cup {Sismember(SHARED_KEY, m) : m \in StoreMembers}
    \cup {Smembers(SHARED_KEY)}

StoreCommands == MapCommands \cup HashCommands \cup SetCommands

StoreInit ==
    /\ kv = {} /\ hmap = {} /\ sets = {}
    /\ op = NoOp /\ nops = 0
    /\ tasks = <<>> /\ shardOf = <<>> /\ built = NoBuild
    /\ req = NoFrame /\ out = NoOut
    /\ input = NoInput /\ wire = <<>> /\ buf = <<>> /\ last = NoResult
    /\ decoded = <<>>
    /\ conn = "none" /\ pc = "none" /\ replies = <<>> /\ sent = <<>>
    /\ nreads = 0

\* cmd.execute(&backend) with outcome o
Executed(cmd, o) ==
    /\ kv' = o.backend.map /\ hmap' = o.backend.hmap /\ sets' = o.backend.set
    /\ op' = [cmd |-> cmd, reply |-> o.reply, before |-> TheBackend]
    /\ nops' = nops + 1

\* cmd.execute(&backend)
Execute(cmd) ==
    /\ nops < MaxOps
    /\ \E o \in Command_execute(cmd, TheBackend) :
            /\ \A e \in o.backend.set : Cardinality(e.inner) <= MaxMembers
            /\ Executed(cmd, o)
    /\ UNCHANGED <<input, wire, buf, last, decoded, conn, pc, replies, sent,
                   nreads, req, out, concVars>>

StoreNext == \E cmd \in StoreCommands : Execute(cmd)

SpecStore == StoreInit /\ [][StoreNext]_vars

\* the replies cmd can give on store b
ReplyOf(cmd, b) == {o.reply : o \in Command_execute(cmd, b)}

\* the elements of a sequence
Range(seq) == {seq[i] : i \in 1..Len(seq)}

\* ------------------------------------------------------- concurrent tasks
\*
\* main spawns one stream_handler task per connection on the multi-thread
\* runtime; each holds a clone of the Arc of the one store.  A task makes its
\* store calls in order; the calls of different tasks interleave.  A call of
\* set, get or del works under the lock of one shard of the outer map and is
\* one step.  hset and sadd take the write lock of the outer shard with
\* entry(key) and keep it until the insert into the inner container is done:
\* two steps.  hdel and srem take the read lock of the outer shard with
\* get(key) and the write lock of one shard of the inner container: one step,
\* once both locks are free.  The reads keep the read guard of get(key) and
\* visit the inner container shard by shard: one step per shard.
\* DashMap::clone drops the read lock of a shard before it takes the next;
\* the iterators of DashMap and DashSet keep the guard of a shard until they
\* hold the guard of the next.

\* the shards of an inner container that are told apart
NumShards == 3

\* a store call of a task
Call(o, k, f, v) == [op |-> o, key |-> k, field |-> f, value |-> v]

\* the calls that visit the inner container shard by shard
ReadOps == {"hgetall", "hkeys", "smembers"}

\* the reads that go through iter(); hgetall goes through clone()
IterOps == {"hkeys", "smembers"}

\* the calls that go through entry(key)
EntryOps == {"hset", "sadd"}

\* what a call returned: a flag (bool, or is_some), a frame, a container
Res(flag, frame, inner) == [flag |-> flag, frame |-> frame, inner |-> inner]

\* the position of a read in the inner container
NoRead == [active |-> FALSE, shard |-> 0, acc |-> {}]

\* a task: its calls, the results so far, its read in progress, whether it
\* holds the write guard of entry(key); and, for the properties, the
\* contents the container it reads has had since the read began, whether it
\* has had to wait for a lock, and the store when it was spawned
Task(prog, b) ==
    [prog |-> prog, done |-> <<>>, rd |-> NoRead, wr |-> FALSE,
     held |-> {}, waited |-> FALSE, start |-> b]

\* task t has a call to make or to finish
Pending(t) == Len(t.done) < Len(t.prog)

\* the call task t is at
CallOf(t) == t.prog[Len(t.done) + 1]

\* the map of the store call c works on
Coll(c) ==
    CASE c.op \in {"hset", "hdel", "hgetall", "hkeys"} -> "hmap"
      [] c.op \in {"sadd", "srem", "smembers"} -> "set"
      [] OTHER -> "map"

\* the outer binding call c looks up exists
Bound(b, c) ==
    IF c.op = "smembers" THEN KvHas(b.set, c.key) ELSE KvHas(b.hmap, c.key)

\* the inner container call c reads
Container(b, c) ==
    IF c.op = "smembers" THEN Members_of(b, c.key)
    ELSE IF KvHas(b.hmap, c.key) THEN Inner_of(b.hmap, c.key) ELSE {}

\* what call c yields of a set of entries of the container
Yield(c, es) ==
    CASE c.op = "hkeys" -> {e.key : e \in es}
      [] c.op = "smembers" -> {e.member : e \in es}
      [] OTHER -> es

\* the entries of the container in shard n
InShard(b, c, n) ==
    {e \in Container(b, c) :
        IF c.op = "smembers" THEN shardOf.member[e] = n
        ELSE shardOf.field[e.key] = n}

\* the outcomes of a one-step call on store b
Apply(c, b) ==
    CASE c.op = "set" ->
            {[backend |-> Backend_set(b, c.key, c.value),
              res |-> Res(TRUE, NoFrame, {})]}
      [] c.op = "get" ->
            {[backend |-> b,
              res |-> Res(Backend_get(b, c.key) # NoFrame, Backend_get(b, c.key), {})]}
      [] c.op = "del" ->
            {[backend |-> Backend_del(b, c.key).backend,
              res |-> Res(Backend_del(b, c.key).removed, NoFrame, {})]}
      [] c.op = "hset" ->
            {[backend |-> Backend_hset(b, c.key, c.field, c.value),
              res |-> Res(TRUE, NoFrame, {})]}
      [] c.op = "hdel" ->
            {[backend |-> Backend_hdel(b, c.key, c.field).backend,
              res |-> Res(Backend_hdel(b, c.key, c.field).removed, NoFrame, {})]}
      [] c.op = "sadd" ->
            {[backend |-> o.backend, res |-> Res(o.changed, NoFrame, {})] :
                o \in Backend_sadd(b, c.key, c.value)}
      [] c.op = "srem" ->
            {[backend |-> o.backend, res |-> Res(o.changed, NoFrame, {})] :
                o \in Backend_srem(b, c.key, c.value)}

\* the shard of the inner container whose read guard reader t keeps between
\* two steps (0: none): the iterator holds the shard it read last
GuardOf(t) ==
    IF t.rd.active /\ CallOf(t).op \in IterOps /\ t.rd.shard >= 2
    THEN t.rd.shard - 1 ELSE 0

\* the shard of the inner container that remove locks for call c (0: the
\* entry is in a shard no reader of the scenario is told to visit)
TargetShard(c) ==
    IF c.op = "hdel" THEN shardOf.field[c.field]
    ELSE IF Member(c.value, 1) \in DOMAIN shardOf.member
         THEN shardOf.member[Member(c.value, 1)] ELSE 0

\* a wait for every other task that has a call to make
Blocked_by_all(ts, n) ==
    /\ Pending(ts[n])
    /\ \E u \in DOMAIN ts \ {n} : Pending(ts[u])

\* among the tasks ts, task n cannot go on with its call: a lock it needs
\* is held by another task.  entry(key) needs the outer shard free of read
\* and write guards; get(key) needs it free of the write guard; remove
\* needs the inner shard free of the guard of an iterator
Blocked(ts, n) ==
    /\ Pending(ts[n])
    /\ ~ts[n].rd.active
    /\ ~ts[n].wr
    /\ \E u \in DOMAIN ts \ {n} :
          /\ ts[u].wr \/ ts[u].rd.active
          /\ Coll(CallOf(ts[u])) = Coll(CallOf(ts[n]))
          /\ CallOf(ts[u]).key = CallOf(ts[n]).key
          /\ \/ ts[u].wr
             \/ CallOf(ts[n]).op \in EntryOps
             \/ /\ CallOf(ts[n]).op \in {"hdel", "srem"}
                /\ GuardOf(ts[u]) # 0
                /\ GuardOf(ts[u]) = TargetShard(CallOf(ts[n]))

\* the tasks ts with the contents of the containers under read noted, and
\* the tasks that wait for a lock marked
Observe(ts, b) ==
    [n \in DOMAIN ts |->
        [ts[n] EXCEPT
            !.held = IF ts[n].rd.active
                     THEN @ \cup {Yield(CallOf(ts[n]), Container(b, CallOf(ts[n])))}
                     ELSE @,
            !.waited = @ \/ Blocked(ts, n)]]

\* ---- the scenarios

\* the keys each of two writers owns
OWN_KEYS == <<{<<"k">>, <<"j">>}, {<<"m">>}>>

SetCalls(K) == {Call("set", k, <<>>, v) : k \in K, v \in StoreValues}

\* every field and every plain member in the first shard
OneShard ==
    [field |-> [f \in StoreFields |-> 1],
     member |-> [e \in {Member(m, 1) : m \in StoreValues} |-> 1]]

Scenario(b, p1, p2, sh) == [store |-> b, progs |-> <<p1, p2>>, shards |-> sh]

\* two tasks that write their own keys
DisjointWriters ==
    {Scenario(EmptyBackend, p1, p2, OneShard) :
        p1 \in ArgLists(SetCalls(OWN_KEYS[1])), p2 \in ArgLists(SetCalls(OWN_KEYS[2]))}

\* two tasks that add the same member to a key without a set, and two that
\* delete the same present key
Races ==
    {Scenario(EmptyBackend,
              <<Call("sadd", SHARED_KEY, <<>>, m)>>,
              <<Call("sadd", SHARED_KEY, <<>>, m)>>, OneShard) : m \in StoreMembers}
    \cup {Scenario(Backend_set(EmptyBackend, SHARED_KEY, v),
                   <<Call("del", SHARED_KEY, <<>>, NoFrame)>>,
                   <<Call("del", SHARED_KEY, <<>>, NoFrame)>>, OneShard) :
            v \in StoreValues}

\* two tasks that write different fields, or add different members, to a
\* key that has no container yet
Creators ==
    {Scenario(EmptyBackend,
              <<Call("hset", SHARED_KEY, f[1], v1)>>,
              <<Call("hset", SHARED_KEY, f[2], v2)>>, OneShard) :
        f \in {p \in StoreFields \X StoreFields : p[1] # p[2]},
        v1 \in StoreValues, v2 \in StoreValues}
    \cup {Scenario(EmptyBackend,
                   <<Call("sadd", SHARED_KEY, <<>>, m[1])>>,
                   <<Call("sadd", SHARED_KEY, <<>>, m[2])>>, OneShard) :
            m \in {p \in StoreMembers \X StoreMembers : p[1] # p[2]}}

\* a hash with every field, a set with every plain member
FULL_HASH ==
    Backend_hset(
        Backend_hset(EmptyBackend, SHARED_KEY, <<"a", "b">>, BulkString(<<"v">>)),
        SHARED_KEY, <<"B">>, BulkString(<<"v">>))

FULL_SET ==
    [EmptyBackend EXCEPT
        !.set = {Binding(SHARED_KEY, {Member(m, 1) : m \in StoreValues})}]

\* a hash and a set that have lost every entry
DRAINED_HASH == [EmptyBackend EXCEPT !.hmap = {Binding(SHARED_KEY, {})}]

DRAINED_SET == [EmptyBackend EXCEPT !.set = {Binding(SHARED_KEY, {})}]

HashWrites ==
    {Call("hdel", SHARED_KEY, f, NoFrame) : f \in StoreFields}
    \cup {Call("hset", SHARED_KEY, f, Integer(7)) : f \in StoreFields}

SetWrites ==
    {Call(o, SHARED_KEY, <<>>, m) : o \in {"sadd", "srem"}, m \in StoreValues}

\* a task that reads a container while the other task changes it with a
\* program of HP (hash) or of SP (set)
ReadersOf(HP, SP) ==
    {Scenario(b, <<Call(o, SHARED_KEY, <<>>, NoFrame)>>, p2,
              [OneShard EXCEPT !.field = sh]) :
        b \in {EmptyBackend, FULL_HASH, DRAINED_HASH}, o \in {"hgetall", "hkeys"},
        p2 \in HP, sh \in [StoreFields -> 1..NumShards]}
    \cup {Scenario(b, <<Call("smembers", SHARED_KEY, <<>>, NoFrame)>>, p2,
                   [OneShard EXCEPT !.member = sh]) :
            b \in {EmptyBackend, FULL_SET, DRAINED_SET},
            p2 \in SP,
            sh \in [{Member(m, 1) : m \in StoreValues} -> 1..NumShards]}

Readers == ReadersOf(ArgLists(HashWrites), ArgLists(SetWrites))

\* the programs of one call and of two calls
OneOrTwo(S) == {<<a>> : a \in S} \cup {<<a, b>> : a \in S, b \in S}

\* the store with both keys of the first writer set
BOTH_KEYS ==
    Backend_set(Backend_set(EmptyBackend, <<"k">>, Integer(7)), <<"j">>, Integer(7))

\* a task that deletes two present keys one after the other while the other
\* task looks them up, the second first
Deleters ==
    {Scenario(BOTH_KEYS,
              <<Call("get", k[2], <<>>, NoFrame), Call("get", k[1], <<>>, NoFrame)>>,
              <<Call("del", k[1], <<>>, NoFrame), Call("del", k[2], <<>>, NoFrame)>>,
              OneShard) :
        k \in {p \in OWN_KEYS[1] \X OWN_KEYS[1] : p[1] # p[2]}}

\* three tasks on one container: a reader, a task that writes a field (adds
\* a member) and a task that removes one
Crowd ==
    {[store |-> FULL_HASH,
      progs |-> <<<<Call(o, SHARED_KEY, <<>>, NoFrame)>>,
                  <<Call("hset", SHARED_KEY, f, Integer(7))>>,
                  <<Call("hdel", SHARED_KEY, g, NoFrame)>>>>,
      shards |-> [OneShard EXCEPT !.field = sh]] :
        o \in {"hgetall", "hkeys"}, f \in StoreFields, g \in StoreFields,
        sh \in [StoreFields -> 1..NumShards]}
    \cup {[store |-> FULL_SET,
           progs |-> <<<<Call("smembers", SHARED_KEY, <<>>, NoFrame)>>,
                       <<Call("sadd", SHARED_KEY, <<>>, m)>>,
                       <<Call("srem", SHARED_KEY, <<>>, e)>>>>,
           shards |-> [OneShard EXCEPT !.member = sh]] :
            m \in StoreValues, e \in StoreValues,
            sh \in [{Member(v, 1) : v \in StoreValues} -> 1..NumShards]}

Scenarios ==
    DisjointWriters \cup Races \cup Creators \cup Readers \cup Deleters \cup Crowd

\* the scenarios in which a task can have to wait for a lock: the writer
\* tries each pair of calls against each reader
WaitScenarios ==
    Races \cup Creators \cup Deleters \cup Crowd
    \cup ReadersOf(OneOrTwo(HashWrites), OneOrTwo(SetWrites))

ConcInitOf(S) ==
    /\ \E sc \in S :
            /\ kv = sc.store.map /\ hmap = sc.store.hmap /\ sets = sc.store.set
            /\ tasks = [n \in 1..Len(sc.progs) |-> Task(sc.progs[n], sc.store)]
            /\ shardOf = sc.shards
    /\ built = NoBuild
    /\ op = NoOp /\ nops = 0
    /\ req = NoFrame /\ out = NoOut
    /\ input = NoInput /\ wire = <<>> /\ buf = <<>> /\ last = NoResult
    /\ decoded = <<>>
    /\ conn = "none" /\ pc = "none" /\ replies = <<>> /\ sent = <<>>
    /\ nreads = 0

ConcInit == ConcInitOf(Scenarios)

ConcFrame ==
    UNCHANGED <<input, wire, buf, last, decoded, conn, pc, replies, sent,
                nreads, req, out, op, nops, shardOf, built>>

\* task n takes the write guard of the outer shard: entry(key) of hset, sadd
Entry(n) ==
    /\ Pending(tasks[n])
    /\ CallOf(tasks[n]).op \in EntryOps
    /\ ~tasks[n].wr
    /\ ~Blocked(tasks, n)
    /\ tasks' = Observe([tasks EXCEPT ![n].wr = TRUE], TheBackend)
    /\ UNCHANGED <<kv, hmap, sets>>
    /\ ConcFrame

\* task n makes a call that is one step, or the insert of hset and sadd
\* under the guard of entry(key), which the return drops
CallStep(n) ==
    /\ Pending(tasks[n])
    /\ CallOf(tasks[n]).op \notin ReadOps
    /\ CallOf(tasks[n]).op \in EntryOps => tasks[n].wr
    /\ ~Blocked(tasks, n)
    /\ \E o \in Apply(CallOf(tasks[n]), TheBackend) :
            /\ kv' = o.backend.map /\ hmap' = o.backend.hmap /\ sets' = o.backend.set
            /\ tasks' = Observe([tasks EXCEPT ![n].done = Append(@, o.res),
                                              ![n].wr = FALSE], o.backend)
    /\ ConcFrame

\* task n starts a read: get(key) on the outer map
ReadBegin(n) ==
    /\ Pending(tasks[n])
    /\ CallOf(tasks[n]).op \in ReadOps
    /\ ~tasks[n].rd.active
    /\ ~Blocked(tasks, n)
    /\ tasks' =
         IF Bound(TheBackend, CallOf(tasks[n]))
         THEN Observe([tasks EXCEPT
                         ![n].rd = [active |-> TRUE, shard |-> 1, acc |-> {}],
                         ![n].held = {}], TheBackend)
         ELSE Observe([tasks EXCEPT ![n].done = Append(@, Res(FALSE, NoFrame, {})),
                                    ![n].held = {}], TheBackend)
    /\ UNCHANGED <<kv, hmap, sets>>
    /\ ConcFrame

\* task n takes the entries of the next shard, and returns after the last
ReadShard(n) ==
    /\ tasks[n].rd.active
    /\ LET c == CallOf(tasks[n])
           acc == tasks[n].rd.acc
                  \cup Yield(c, InShard(TheBackend, c, tasks[n].rd.shard))
       IN  tasks' =
             IF tasks[n].rd.shard < NumShards
             THEN Observe([tasks EXCEPT ![n].rd.shard = @ + 1, ![n].rd.acc = acc],
                          TheBackend)
             ELSE Observe([tasks EXCEPT ![n].rd = NoRead,
                                        ![n].done = Append(@, Res(TRUE, NoFrame, acc))],
                          TheBackend)
    /\ UNCHANGED <<kv, hmap, sets>>
    /\ ConcFrame

ConcNext ==
    \E n \in DOMAIN tasks : Entry(n) \/ CallStep(n) \/ ReadBegin(n) \/ ReadShard(n)

SpecConc == ConcInit /\ [][ConcNext]_vars

\* the tasks of the largest scenario
MaxTasks == 3

\* a step of task n
TaskStep(n) ==
    /\ n \in DOMAIN tasks
    /\ Entry(n) \/ CallStep(n) \/ ReadBegin(n) \/ ReadShard(n)

\* every task runs on a worker thread of the runtime and no store call
\* suspends: a task whose next step needs no lock another task holds takes it
SpecConcFair ==
    /\ ConcInitOf(WaitScenarios)
    /\ [][ConcNext]_vars
    /\ \A n \in 1..MaxTasks : WF_vars(TaskStep(n))

\* every task has made all its calls
AllDone == \A n \in DOMAIN tasks : Len(tasks[n].done) = Len(tasks[n].prog)

\* ------------------------------------------------ containers inside frames
\*
\* RespSet wraps a HashSet<RespFrame> and RespMap a HashMap<RespFrame,
\* RespFrame>; the decoders fill them with insert, one decoded child (one
\* decoded pair) after the other.  The tables find a key by its hash first:
\* a container is a set of slots [key, copy, value], and equal keys whose
\* hashes differed sit in it side by side, numbered 1, 2, ...

\* the entries inserted into one container
MaxEntries == 3

Slot(k, c, v) == [key |-> k, copy |-> c, value |-> v]

NoSlot == Slot(NoFrame, 0, NoFrame)

\* the slots whose key equals k
SlotsOf(slots, k) == {s \in slots : s.key = k}

\* the lookup of key k: the slot found, or NoSlot.  An equal key is found
\* when the hashes agree
HashMap_find(slots, k) ==
    IF SlotsOf(slots, k) = {} THEN {NoSlot}
    ELSE IF OrderSensitive(k) THEN SlotsOf(slots, k) \cup {NoSlot}
    ELSE SlotsOf(slots, k)

\* HashMap::insert(k, v), and HashSet::insert(k) with v = NoFrame: the
\* tables it can leave
HashMap_insert(slots, k, v) ==
    {IF hit = NoSlot
     THEN slots \cup {Slot(k, Cardinality(SlotsOf(slots, k)) + 1, v)}
     ELSE (slots \ {hit}) \cup {Slot(hit.key, hit.copy, v)} :
        hit \in HashMap_find(slots, k)}

FrameKeys == {Integer(7), BulkString(<<"v">>), MAP_MEMBER}

FrameVals == {Integer(1), Integer(2)}

\* an entry to insert: a member of a Set (no value) or a pair of a Map
Pair(k, v) == [key |-> k, value |-> v]

Build(kind, todo) == [kind |-> kind, todo |-> todo, done |-> <<>>, slots |-> {}]

BuildInputs ==
    {Build("Set", t) : t \in SeqsUpTo({Pair(k, NoFrame) : k \in FrameKeys}, MaxEntries)}
    \cup {Build("Map", t) :
            t \in SeqsUpTo({Pair(k, v) : k \in FrameKeys, v \in FrameVals}, MaxEntries)}

FrameInit ==
    /\ built \in BuildInputs
    /\ kv = {} /\ hmap = {} /\ sets = {}
    /\ op = NoOp /\ nops = 0
    /\ tasks = <<>> /\ shardOf = <<>>
    /\ req = NoFrame /\ out = NoOut
    /\ input = NoInput /\ wire = <<>> /\ buf = <<>> /\ last = NoResult
    /\ decoded = <<>>
    /\ conn = "none" /\ pc = "none" /\ replies = <<>> /\ sent = <<>>
    /\ nreads = 0

\* the next entry goes into the container, leaving the table as slots
Inserted(slots) ==
    /\ built' = [built EXCEPT !.todo = Tail(@),
                              !.done = Append(@, Head(built.todo)),
                              !.slots = slots]
    /\ UNCHANGED <<input, wire, buf, last, decoded, netVars, req, out, op, nops,
                   tasks, shardOf>>

\* set.insert(frame) of RespSet::decode
InsertMember ==
    /\ built.kind = "Set"
    /\ built.todo # <<>>
    /\ \E slots \in HashMap_insert(built.slots, Head(built.todo).key, NoFrame) :
            Inserted(slots)

\* map.insert(key, value) of RespMap::decode
InsertEntry ==
    /\ built.kind = "Map"
    /\ built.todo # <<>>
    /\ \E slots \in HashMap_insert(built.slots, Head(built.todo).key,
                                    Head(built.todo).value) :
            Inserted(slots)

FrameNext == InsertMember \/ InsertEntry

SpecFrame == FrameInit /\ [][FrameNext]_vars

\* ------------------------------------------------------------- properties

\* C1 (Partial feed): with one valid encoding E on the way and a strict
\* prefix of E in the buffer, decode returns FrameNotComplete and leaves the
\* buffer as it was; with all of E in the buffer, decode returns the frame.
PartialFeed ==
    (/\ input.cpos = 0 /\ Len(input.pieces) = 1 /\ last.res # "None" /\ last.nth = 0
     /\ input.pieces[1].frame # NoFrame)
    => /\ (/\ Len(last.before) < Len(input.pieces[1].enc)
           /\ last.before = Take(input.pieces[1].enc, Len(last.before)))
          => (last.res = "NotComplete" /\ last.after = last.before)
       /\ last.before = input.pieces[1].enc
          => (last.res = "Ok" /\ last.frame = input.pieces[1].frame)

\* C2: whenever decode returns FrameNotComplete, on any buffer, the buffer is
\* unchanged.
NotCompleteKeepsBuffer ==
    last.res = "NotComplete" => last.after = last.before

\* C3 (Exactness): with two valid encodings E1 E2 in one buffer, the first
\* decode returns the frame of E1 and leaves exactly E2, and the second
\* returns the frame of E2 and leaves the buffer empty.  The encodings are
\* those the encoder writes, the two legacy null shorthands, and composites
\* with a legacy null shorthand as a child.
Exactness ==
    (input.cpos = 0 /\ Len(input.pieces) = 2)
    => /\ (last.nth = 0 /\ last.before = Concat(input.pieces))
          => /\ last.res = "Ok"
             /\ last.frame = input.pieces[1].frame
             /\ last.after = input.pieces[2].enc
       /\ (last.nth = 1 /\ last.before = input.pieces[2].enc)
          => /\ last.res = "Ok"
             /\ last.frame = input.pieces[2].frame
             /\ last.after = <<>>

\* two encodings, the first a nested array, both decoded and nothing left
ExactnessReached ==
    /\ input.cpos = 0 /\ Len(input.pieces) = 2
    /\ input.pieces[1].frame.kind = "Array"
    /\ \E i \in 1..Len(input.pieces[1].frame.items) :
           input.pieces[1].frame.items[i].kind = "Array"
    /\ last.nth = 1 /\ last.before = input.pieces[2].enc
    /\ decoded = <<input.pieces[1].frame, input.pieces[2].frame>>
    /\ buf = <<>> /\ wire = <<>>

PipelineOrder ==
    AllCommands(input)
    => /\ conn \in {"open", "closed"}
       /\ Len(replies) <= Len(input.pieces)
       /\ \E h \in HandleAll(FramesOf(input), EmptyBackend, <<>>) :
             replies = Take(h.replies, Len(replies))
       /\ (wire = <<>> /\ pc = "read") => Len(replies) = Len(input.pieces)

\* C7: a request that decodes but is rejected by Command::try_from leaves the
\* connection open and is answered with one SimpleError.
CommandErrorsKeepSession ==
    (pc \in {"decode", "eof"} /\ last.res = "Ok" /\ ~Command_try_from(last.frame).ok)
    => /\ conn = "open"
       /\ replies # <<>>
       /\ replies[Len(replies)].kind = "SimpleError"

\* C8: a step in which the decoder reports a protocol error ends the handler
\* with an error and sends and executes nothing; a step in which it reports
\* FrameNotComplete while the peer is still sending sends nothing, keeps the
\* connection open and goes back to reading; a read that brings bytes is
\* followed by a decode; an ended handler does nothing more.
ProtocolErrorsClose ==
    [][/\ (conn = "open" /\ last'.res = "Invalid")
          => (conn' = "error" /\ replies' = replies /\ sent' = sent /\ TheBackend' = TheBackend)
       /\ (conn = "open" /\ pc = "decode" /\ last'.res = "NotComplete")
          => /\ conn' = "open" /\ pc' = "read"
             /\ replies' = replies /\ sent' = sent /\ TheBackend' = TheBackend
       /\ nreads' # nreads => (conn' = "open" /\ pc' = "decode")
       /\ conn # "open"
          => (conn' = conn /\ replies' = replies /\ sent' = sent /\ TheBackend' = TheBackend)]_vars

\* a first read left the frame incomplete and the handler went back to
\* reading; the second read completed a malformed frame and the handler
\* ended with an error, nothing sent
ProtocolErrorsCloseReached ==
    /\ conn = "error" /\ last.res = "Invalid"
    /\ nreads = 2 /\ decoded = <<>> /\ sent = <<>>

\* C9 (Split delivery): one valid command delivered in two parts: after the
\* first part nothing is sent and the connection is up; after the second the
\* reply and the store are those of the command arriving whole.
SplitDelivery ==
    (Len(input.pieces) = 1 /\ AllCommands(input))
    => /\ (nreads = 1 /\ wire # <<>>)
          => (conn = "open" /\ sent = <<>> /\ replies = <<>> /\ TheBackend = EmptyBackend)
       /\ (nreads = 2 /\ wire = <<>> /\ pc = "read")
          => /\ conn = "open"
             /\ \E h \in HandleAll(FramesOf(input), EmptyBackend, <<>>) :
                    replies = h.replies /\ TheBackend = h.backend

\* C10: a request naming a command outside the supported set is answered
\* with the SimpleError "ERR unknown command '<name>'".
UnknownCommandReply ==
    (/\ out.done
     /\ req.kind = "Array" /\ req.items # <<>>
     /\ req.items[1].kind = "BulkString" /\ IsUtf8(req.items[1].s)
     /\ to_ascii_lowercase(req.items[1].s) \notin SUPPORTED)
    => out.reply = SimpleError(<<"E", "R", "R", " ">> \o MSG_UNKNOWN_HEAD
                               \o req.items[1].s \o <<"'">>)

\* C11: a request rejected for its argument count is answered with the
\* SimpleError "ERR wrong number of arguments for command", and a request
\* whose key is not valid UTF-8 with the SimpleError "ERR internal error".
ErrorReplyMapping ==
    (pc \in {"decode", "eof"} /\ last.res = "Ok" /\ ~Command_try_from(last.frame).ok)
    => /\ Command_try_from(last.frame).err = "InvalidCommandArguments"
          => (replies # <<>>
              /\ replies[Len(replies)] = SimpleError(MSG_WRONG_ARGS))
       /\ Command_try_from(last.frame).err = "Utf8Error"
          => (replies # <<>>
              /\ replies[Len(replies)] = SimpleError(MSG_INTERNAL))

\* C12 (last write wins): every SET replies +OK; after SET k v, GET k replies
\* v; after a DEL naming k, GET k replies Null; any other command, and a SET
\* or DEL of other keys, leaves the reply of GET k as it was; on the new
\* store GET k replies Null.
LastWriteWins ==
    /\ op.cmd.name = NAME_SET => op.reply = RESP_OK
    /\ \A k \in StoreKeys :
          ReplyOf(Get(k), TheBackend) =
             IF nops = 0 THEN {RespNull}
             ELSE IF op.cmd.name = NAME_SET /\ op.cmd.key = k THEN {op.cmd.value}
             ELSE IF op.cmd.name = NAME_DEL /\ k \in Range(op.cmd.keys) THEN {RespNull}
             ELSE ReplyOf(Get(k), op.before)

\* a SET has replaced the value an earlier SET gave the key
LastWriteWinsReached ==
    /\ op.cmd = Set(SHARED_KEY, Integer(7)) /\ op.reply = RESP_OK
    /\ ReplyOf(Get(SHARED_KEY), op.before) = {BulkString(<<"v">>)}
    /\ ReplyOf(Get(SHARED_KEY), TheBackend) = {Integer(7)}

\* C13: DEL k1 ... kn replies the number of listed keys that were present (an
\* absent key counts 0, a key listed twice counts once), and afterwards GET
\* of every listed key replies Null.
DelCount ==
    op.cmd.name = NAME_DEL
    => /\ op.reply =
             Integer(Cardinality({k \in Range(op.cmd.keys) : KvHas(op.before.map, k)}))
       /\ \A k \in Range(op.cmd.keys) : ReplyOf(Get(k), TheBackend) = {RespNull}

\* a DEL that lists a present key twice has replied 1
DelCountReached ==
    /\ op.cmd = Del(<<SHARED_KEY, SHARED_KEY>>)
    /\ KvHas(op.before.map, SHARED_KEY)
    /\ op.reply = Integer(1)
    /\ ReplyOf(Get(SHARED_KEY), TheBackend) = {RespNull}

\* what the read commands of the string map reply on store b
MapView(b) == [k \in StoreKeys |-> ReplyOf(Get(k), b)]

\* what the read commands of the hashes can reply on store b
HashView(b) ==
    [k \in StoreKeys |->
        <<[f \in StoreFields |-> ReplyOf(HGet(k, f), b)],
          [sort \in BOOLEAN |-> ReplyOf(HGetAll(k, sort), b)],
          ReplyOf(HKeys(k), b)>>]

\* what the read commands of the sets can reply on store b
SetView(b) ==
    [k \in StoreKeys |->
        <<[m \in StoreMembers |-> ReplyOf(Sismember(k, m), b)],
          ReplyOf(Smembers(k), b)>>]

\* C14: the three collections are disjoint name spaces: a string command
\* changes no reply of the hash and set reads, a hash command no reply of
\* GET or of the set reads, a set command no reply of GET or of the hash
\* reads, on any key; DEL replies 0 when its keys name only hashes or sets.
DisjointNameSpaces ==
    /\ op.cmd.name \in {NAME_GET, NAME_SET, NAME_DEL}
       => /\ HashView(TheBackend) = HashView(op.before)
          /\ SetView(TheBackend) = SetView(op.before)
    /\ op.cmd.name \in {NAME_HSET, NAME_HGET, NAME_HDEL, NAME_HGETALL, NAME_HKEYS}
       => /\ MapView(TheBackend) = MapView(op.before)
          /\ SetView(TheBackend) = SetView(op.before)
    /\ op.cmd.name \in {NAME_SADD, NAME_SREM, NAME_SISMEMBER, NAME_SMEMBERS}
       => /\ MapView(TheBackend) = MapView(op.before)
          /\ HashView(TheBackend) = HashView(op.before)
    /\ (op.cmd.name = NAME_DEL
        /\ \A k \in Range(op.cmd.keys) : ~KvHas(op.before.map, k))
       => op.reply = Integer(0)

\* DEL k on a key that names a hash and a set and no string has replied 0
\* and left the hash and the set in place
DisjointNameSpacesReached ==
    /\ op.cmd = Del(<<SHARED_KEY>>) /\ op.reply = Integer(0)
    /\ ~KvHas(op.before.map, SHARED_KEY)
    /\ ReplyOf(HKeys(SHARED_KEY), TheBackend) # {RespArray(<<>>)}
    /\ ReplyOf(Smembers(SHARED_KEY), TheBackend) # {RespArray(<<>>)}

\* C15: HSET k f1 v1 ... fn vn replies Integer n, the number of pairs
\* supplied, whether or not fields existed or repeat; afterwards HGET k f
\* replies the value of the last pair given for f.
HSetReply ==
    op.cmd.name = NAME_HSET
    => /\ op.reply = Integer(Len(op.cmd.pairs))
       /\ \A i \in 1..Len(op.cmd.pairs) :
             (\A j \in (i + 1)..Len(op.cmd.pairs) :
                 op.cmd.pairs[j].key # op.cmd.pairs[i].key)
             => ReplyOf(HGet(op.cmd.key, op.cmd.pairs[i].key), TheBackend)
                   = {op.cmd.pairs[i].value}

\* an HSET that gives an existing field two values has replied 2 and HGET
\* replies the second value
HSetReplyReached ==
    /\ op.cmd = HSet(SHARED_KEY, <<KvEntry(<<"a", "b">>, Integer(7)),
                                    KvEntry(<<"a", "b">>, BulkString(<<"v">>))>>)
    /\ op.reply = Integer(2)
    /\ ReplyOf(HGet(SHARED_KEY, <<"a", "b">>), op.before) = {Integer(7)}
    /\ ReplyOf(HGet(SHARED_KEY, <<"a", "b">>), TheBackend) = {BulkString(<<"v">>)}

\* a is before b in byte-wise lexicographic order
BytesLess(a, b) ==
    \E i \in 1..(Len(b)) :
        /\ \A j \in 1..(i - 1) : j <= Len(a) /\ a[j] = b[j]
        /\ (i > Len(a) \/ byte_rank(a[i]) < byte_rank(b[i]))

\* the fields of the hash at k in store b
FieldsAt(b, k) == IF KvHas(b.hmap, k) THEN Inner_of(b.hmap, k) ELSE {}

\* C16: HGetAll with sort = true on a hash of n distinct fields replies an
\* Array of 2n elements: the fields as BulkStrings in strictly ascending byte
\* order, each followed by its current value.
SortedHGetAll ==
    (op.cmd.name = NAME_HGETALL /\ op.cmd.sort)
    => /\ op.reply.kind = "Array"
       /\ Len(op.reply.items) = 2 * Cardinality(FieldsAt(op.before, op.cmd.key))
       /\ \A i \in 1..Cardinality(FieldsAt(op.before, op.cmd.key)) :
             /\ op.reply.items[2 * i - 1].kind = "BulkString"
             /\ KvEntry(op.reply.items[2 * i - 1].s, op.reply.items[2 * i])
                    \in FieldsAt(op.before, op.cmd.key)
             /\ i > 1 => BytesLess(op.reply.items[2 * i - 3].s,
                                   op.reply.items[2 * i - 1].s)

\* a sorted HGetAll on a hash of two fields has replied them in byte order,
\* the upper-case field first
SortedHGetAllReached ==
    /\ op.cmd = HGetAll(SHARED_KEY, TRUE)
    /\ op.reply = RespArray(<<BulkString(<<"B">>), BulkString(<<"v">>),
                              BulkString(<<"a", "b">>), Integer(7)>>)

\* C17: no command removes an outer binding of hmap or set: a key that had a
\* hash (a set) still has one, and after HDEL (SREM) has removed the last
\* field (member), hgetall (smembers) returns a present, empty container.
OuterBindingsPersist ==
    /\ \A e \in op.before.hmap : Backend_hgetall(TheBackend, e.key).some
    /\ \A e \in op.before.set : Backend_smembers(TheBackend, e.key).some
    /\ (op.cmd.name = NAME_HDEL /\ KvHas(op.before.hmap, op.cmd.key)
        /\ \A e \in FieldsAt(op.before, op.cmd.key) : e.key \in Range(op.cmd.fields))
       => Backend_hgetall(TheBackend, op.cmd.key) = [some |-> TRUE, inner |-> {}]
    /\ (op.cmd.name = NAME_SREM /\ KvHas(op.before.set, op.cmd.key)
        /\ op.reply = Integer(Cardinality(Members_of(op.before, op.cmd.key))))
       => Backend_smembers(TheBackend, op.cmd.key) = [some |-> TRUE, inner |-> {}]

\* an HDEL has removed the only field of a hash and the hash is present and
\* empty
OuterBindingsPersistReached ==
    /\ op.cmd = HDel(SHARED_KEY, <<(<<"B">>)>>) /\ op.reply = Integer(1)
    /\ Cardinality(FieldsAt(op.before, SHARED_KEY)) = 1
    /\ Backend_hgetall(TheBackend, SHARED_KEY) = [some |-> TRUE, inner |-> {}]

\* C18: hdel(k, f) returns true exactly when the field was present, so a
\* second hdel of the same field and an hdel on a key with no hash return
\* false; HDEL k f1 ... fn replies the number of fields removed, and
\* afterwards HGET of each listed field replies Null.
HDelCount ==
    /\ \A k \in StoreKeys, f \in StoreFields :
          /\ Backend_hdel(TheBackend, k, f).removed <=> KvHas(FieldsAt(TheBackend, k), f)
          /\ ~Backend_hdel(Backend_hdel(TheBackend, k, f).backend, k, f).removed
    /\ op.cmd.name = NAME_HDEL
       => /\ op.reply =
                Integer(Cardinality({f \in Range(op.cmd.fields) :
                                        KvHas(FieldsAt(op.before, op.cmd.key), f)}))
          /\ \A f \in Range(op.cmd.fields) :
                ReplyOf(HGet(op.cmd.key, f), TheBackend) = {RespNull}

\* an HDEL that lists a present field twice has replied 1
HDelCountReached ==
    /\ op.cmd = HDel(SHARED_KEY, <<(<<"a", "b">>), (<<"a", "b">>)>>)
    /\ KvHas(FieldsAt(op.before, SHARED_KEY), <<"a", "b">>)
    /\ op.reply = Integer(1)
    /\ ReplyOf(HGet(SHARED_KEY, <<"a", "b">>), TheBackend) = {RespNull}

\* member m is in the set at k in store b
IsMember(b, k, m) == Copies(Members_of(b, k), m) > 0

\* C19: SADD k m1 ... mn replies the number of listed members that were not
\* in the set at k (a member listed twice counts once), and the same SADD
\* repeated at once replies 0.
SaddCount ==
    op.cmd.name = NAME_SADD
    => /\ op.reply =
             Integer(Cardinality({m \in Range(op.cmd.values) :
                                     ~IsMember(op.before, op.cmd.key, m)}))
       /\ ReplyOf(op.cmd, TheBackend) = {Integer(0)}

\* C20: SREM k m1 ... mn replies the number of listed members that were in
\* the set at k, and they are members no more; a SREM whose members are not
\* in the set, or whose key has no set, replies 0 and changes nothing.
SremCount ==
    op.cmd.name = NAME_SREM
    => /\ op.reply =
             Integer(Cardinality({m \in Range(op.cmd.values) :
                                     IsMember(op.before, op.cmd.key, m)}))
       /\ \A m \in Range(op.cmd.values) : ~IsMember(TheBackend, op.cmd.key, m)
       /\ op.reply = Integer(0) => TheBackend = op.before

\* C21: set membership follows a reference set: SISMEMBER k m replies 1 after
\* a SADD that named m, 0 after a SREM that named m and on a new store, and
\* what it replied before after any other command; SMEMBERS k replies an
\* Array of exactly the members for which SISMEMBER replies 1, each once.
SetFollowsReference ==
    /\ \A m \in StoreMembers :
          ReplyOf(Sismember(SHARED_KEY, m), TheBackend) =
             IF nops = 0 THEN {Integer(0)}
             ELSE IF op.cmd.name = NAME_SADD /\ m \in Range(op.cmd.values)
             THEN {Integer(1)}
             ELSE IF op.cmd.name = NAME_SREM /\ m \in Range(op.cmd.values)
             THEN {Integer(0)}
             ELSE ReplyOf(Sismember(SHARED_KEY, m), op.before)
    /\ \A r \in ReplyOf(Smembers(SHARED_KEY), TheBackend) :
          /\ r.kind = "Array"
          /\ \A i, j \in 1..Len(r.items) : r.items[i] = r.items[j] => i = j
          /\ Range(r.items) =
                {m \in StoreMembers :
                    ReplyOf(Sismember(SHARED_KEY, m), TheBackend) = {Integer(1)}}

\* the value of the last set of key k among the calls prog (there is one)
LastSet(prog, k) ==
    prog[CHOOSE i \in 1..Len(prog) :
            /\ prog[i].key = k
            /\ \A j \in (i + 1)..Len(prog) : prog[j].key # k].value

\* the keys the calls prog name
KeysOf(prog) == {prog[i].key : i \in 1..Len(prog)}

\* the tasks are two writers of keys of their own
WritersOnly ==
    /\ DOMAIN tasks = 1..2
    /\ \A n \in 1..2 : \A i \in 1..Len(tasks[n].prog) : tasks[n].prog[i].op = "set"
    /\ KeysOf(tasks[1].prog) \cap KeysOf(tasks[2].prog) = {}

\* C22 (Disjoint writers): two tasks each run their SETs over key sets that
\* do not meet; under every interleaving, once both are through, every key
\* of both is present and GET gives the value its own task wrote to it last.
DisjointWritersKeep ==
    (WritersOnly /\ AllDone) =>
        \A n \in 1..2 : \A k \in KeysOf(tasks[n].prog) :
            /\ KvHas(kv, k)
            /\ Backend_get(TheBackend, k) = LastSet(tasks[n].prog, k)

DisjointWritersKeepReached ==
    /\ WritersOnly /\ AllDone
    /\ Cardinality(KeysOf(tasks[1].prog)) = 2
    /\ Len(tasks[2].prog) = 2
    /\ tasks[2].prog[1].value # tasks[2].prog[2].value

\* the two tasks make the same single call of sadd or del
SameCall ==
    /\ DOMAIN tasks = 1..2
    /\ tasks[1].prog = tasks[2].prog
    /\ Len(tasks[1].prog) = 1
    /\ tasks[1].prog[1].op \in {"sadd", "del"}

\* C23 (One winner): when two tasks call sadd(k, m) with the same k and m
\* on a store where k has no set, exactly one call returns true and the set
\* holds m once; when two tasks call del(k) on a present key, exactly one
\* call returns true.
OneWinner ==
    (SameCall /\ AllDone) =>
        /\ tasks[1].done[1].flag # tasks[2].done[1].flag
        /\ tasks[1].prog[1].op = "sadd" =>
              Copies(Members_of(TheBackend, SHARED_KEY), tasks[1].prog[1].value) = 1

\* C24 (Consistent snapshots): what hgetall(k), the field listing of HKEYS
\* and HGETALL, and smembers(k) return is what the inner container held at
\* one instant between the call and the return, whatever hset, hdel, sadd
\* and srem the other task runs on the key meanwhile.
ConsistentSnapshots ==
    \A n \in DOMAIN tasks :
        (/\ Len(tasks[n].done) >= 1
         /\ ~tasks[n].rd.active
         /\ tasks[n].prog[Len(tasks[n].done)].op \in ReadOps
         /\ tasks[n].done[Len(tasks[n].done)].flag)
        => tasks[n].done[Len(tasks[n].done)].inner \in tasks[n].held

\* the spellings of get
GET_SPELLINGS == {NAME_GET, NAME_UPPER_GET, <<"G", "e", "T">>}

\* the request is a spelling of get with one key that is UTF-8
GetRequest ==
    /\ req.kind = "Array"
    /\ Len(req.items) = 2
    /\ req.items[1].kind = "BulkString" /\ req.items[1].s \in GET_SPELLINGS
    /\ req.items[2].kind = "BulkString" /\ IsUtf8(req.items[2].s)

\* two keys that differ in case only
CASE_KEYS == {<<"k">>, <<"K">>}

\* the store after SET k v on the empty store
AfterSet(k, v) == (CHOOSE o \in Command_execute(Set(k, v), EmptyBackend) : TRUE).backend

\* C25 (Case folding): the command name is matched after ASCII
\* lower-casing, so get, GET and GeT with a key parse to the same Get
\* command; the key is compared byte for byte: after SET of the key as
\* written that GET replies the value, after SET of a key that differs from
\* it in case only it replies Null.
CaseFolding ==
    (out.done /\ GetRequest) =>
        /\ out.result = CmdOk(Get(req.items[2].s))
        /\ \A v \in StoreValues : \A k \in CASE_KEYS :
                ReplyOf(out.result.cmd, AfterSet(k, v)) =
                    {IF k = req.items[2].s THEN v ELSE RespNull}

CaseFoldingReached ==
    /\ out.done /\ GetRequest
    /\ req.items[1].s = <<"G", "e", "T">>
    /\ req.items[2].s = <<"K">>
    /\ ReplyOf(out.result.cmd, AfterSet(<<"k">>, Integer(7))) = {RespNull}

\* the reply with no element, and its bytes
EMPTY_ARRAY == RespArray(<<>>)

EMPTY_ARRAY_BYTES == <<"*", "0", CR, LF>>

\* key k has no field, key k has no member
NoFields(k) == ~KvHas(hmap, k) \/ Inner_of(hmap, k) = {}

NoMembers(k) == ~KvHas(sets, k) \/ Inner_of(sets, k) = {}

\* C26 (Empty reply shape): HGETALL, HKEYS and SMEMBERS reply the empty
\* Array, *0\r\n, for a key that was never written and for a key whose
\* fields or members were all removed.
EmptyReplyShape ==
    /\ RespFrame_encode(EMPTY_ARRAY) = {EMPTY_ARRAY_BYTES}
    /\ \A k \in StoreKeys :
          /\ NoFields(k) =>
                /\ \A sort \in BOOLEAN :
                      ReplyOf(HGetAll(k, sort), TheBackend) = {EMPTY_ARRAY}
                /\ ReplyOf(HKeys(k), TheBackend) = {EMPTY_ARRAY}
          /\ NoMembers(k) => ReplyOf(Smembers(k), TheBackend) = {EMPTY_ARRAY}

\* the members of the key were all removed, and its hash was never written
EmptyReplyShapeReached ==
    /\ KvHas(sets, SHARED_KEY) /\ Inner_of(sets, SHARED_KEY) = {}
    /\ op.cmd.name = NAME_SREM
    /\ ~KvHas(hmap, SHARED_KEY)

\* the fields of the key were all removed
EmptiedHashReached ==
    /\ KvHas(hmap, SHARED_KEY) /\ Inner_of(hmap, SHARED_KEY) = {}
    /\ op.cmd.name = NAME_HDEL

NAME_UPPER_HMGET == <<"H", "M", "G", "E", "T">>

\* the value of field f of the hash at key k in store b, Null without one
FieldOrNull(b, k, f) ==
    IF \E h \in b.hmap : h.key = k /\ \E e \in h.inner : e.key = f
    THEN (CHOOSE e \in Inner_of(b.hmap, k) : e.key = f).value
    ELSE RespNull

\* C27 (HMGET order): HMGET k f1 ... fn replies an Array of exactly n
\* elements, the i-th being the value of fi in the hash at k or Null when
\* the field or the key is absent, in request order, also when a field is
\* named more than once.
HmgetOrder ==
    op.cmd.name = NAME_HMGET =>
        /\ Command_try_from(Request(NAME_UPPER_HMGET, <<op.cmd.key>> \o op.cmd.fields))
              = CmdOk(op.cmd)
        /\ op.reply.kind = "Array"
        /\ Len(op.reply.items) = Len(op.cmd.fields)
        /\ \A i \in 1..Len(op.cmd.fields) :
              op.reply.items[i] = FieldOrNull(op.before, op.cmd.key, op.cmd.fields[i])
        /\ TheBackend = op.before

\* a field named twice that has a value
HmgetOrderReached ==
    /\ op.cmd.name = NAME_HMGET
    /\ Len(op.cmd.fields) = 2
    /\ op.cmd.fields[1] = op.cmd.fields[2]
    /\ op.reply.items[1] # RespNull

\* a field with a value after one without
HmgetMixedReached ==
    /\ op.cmd.name = NAME_HMGET
    /\ Len(op.cmd.fields) = 2
    /\ op.reply.items[1] = RespNull
    /\ op.reply.items[2] # RespNull

\* the kinds that start with a length, and the signs
LENGTH_PREFIXES == {"$", "*", "%", "~"}

SIGNS == {"+", "-"}

\* the buffer starts with a complete length line that carries a sign and is
\* no legacy shorthand
SignedLength(b) ==
    /\ Len(b) >= 3
    /\ b[1] \in LENGTH_PREFIXES /\ b[2] \in SIGNS
    /\ find_crlf(b) >= 0
    /\ ~StartsWith(b, LEGACY_BULK) /\ ~StartsWith(b, LEGACY_ARRAY)

\* C28 (Lengths take no sign): a length of a BulkString, Array, Map or Set
\* with a leading + or -, other than the legacy $-1 and *-1, is rejected
\* with a protocol error; an Integer with a leading + or - decodes to its
\* value.
LengthsTakeNoSign ==
    /\ SignedLength(last.before) => last.res = "Invalid"
    /\ (Len(input.pieces) = 1 /\ input.pieces[1] \in SignedIntegerPieces
        /\ last.before = input.pieces[1].enc)
       => (last.res = "Ok" /\ last.frame = input.pieces[1].frame /\ last.after = <<>>)

\* the ten type prefixes
PREFIXES == {"+", "-", ":", "$", "*", "_", "#", ",", "%", "~"}

\* an optional sign and one or more digits
IsDecimal(t) ==
    LET body == IF t # <<>> /\ t[1] \in SIGNS THEN Tail(t) ELSE t
    IN  body # <<>> /\ \A i \in 1..Len(body) : IsDigit(body[i])

\* the text of the first line of b, between the prefix and the CRLF
FirstLine(b) == Slice(b, 1, find_crlf(b))

\* b starts with a byte that is no prefix, with a complete length line that
\* is no decimal number, or with a complete Integer line that is none
Malformed(b) ==
    /\ b # <<>>
    /\ \/ b[1] \notin PREFIXES
       \/ /\ b[1] \in LENGTH_PREFIXES \cup {":"}
          /\ Len(b) >= 3 /\ find_crlf(b) >= 0
          /\ ~IsDecimal(FirstLine(b))

\* b is the header of an Array of one or more children and then the bytes c
ArrayOf(b, c) ==
    /\ Len(b) >= 3 /\ b[1] = "*" /\ find_crlf(b) >= 0
    /\ AllDigits(FirstLine(b)) /\ DecVal(FirstLine(b)) >= 1
    /\ c = Drop(b, find_crlf(b) + CRLF_LEN)

HashAgreesWithEquality ==
    /\ op.cmd.name = NAME_SADD =>
          \A m \in Range(op.cmd.values) :
              /\ ReplyOf(Sismember(op.cmd.key, m), TheBackend) = {Integer(1)}
              /\ ReplyOf(Sadd(op.cmd.key, <<m>>), TheBackend) = {Integer(0)}
    /\ \A e \in sets : \A x, y \in e.inner : x.member = y.member => x = y

\* the request names HSET or HMSET
PairRequest ==
    /\ req.kind = "Array" /\ req.items # <<>>
    /\ req.items[1].kind = "BulkString"
    /\ req.items[1].s \in {NAME_UPPER_HSET, NAME_UPPER_HMSET}

\* the arguments after the name are a key and one or more whole pairs
WholePairs(a) == Len(a) >= 3 /\ Len(a) % 2 = 1

\* the key and every field of the arguments a is a BulkString of UTF-8
StringsInPlace(a) ==
    \A i \in 1..Len(a) :
        (i = 1 \/ i % 2 = 0) => (a[i].kind = "BulkString" /\ IsUtf8(a[i].s))

\* C31 (Pair arity): HSET and HMSET are accepted exactly with a key and one
\* or more whole (field, value) pairs, key and fields being strings; the
\* command then holds every pair sent, in order.  With a key and no pair, or
\* with a last field that has no value, the request is rejected as an
\* argument error, and handling it writes nothing to the store.
PairArity ==
    (out.done /\ PairRequest) =>
        LET a == Tail(req.items)
        IN  /\ out.result.ok <=> (WholePairs(a) /\ StringsInPlace(a))
            /\ out.result.ok =>
                  /\ out.result.cmd.key = a[1].s
                  /\ Len(out.result.cmd.pairs) = (Len(a) - 1) \div 2
                  /\ \A i \in 1..Len(out.result.cmd.pairs) :
                        out.result.cmd.pairs[i] = KvEntry(a[2 * i].s, a[2 * i + 1])
            /\ ~WholePairs(a) =>
                  /\ out.result.err = "InvalidCommandArguments"
                  /\ out.reply = SimpleError(MSG_WRONG_ARGS)
                  /\ \A h \in request_handler(req, EmptyBackend) :
                        ~h.ok /\ h.backend = EmptyBackend

\* HSET with a key, a pair and a field without a value was rejected
PairArityReached ==
    /\ out.done /\ PairRequest
    /\ req.items[1].s = NAME_UPPER_HSET
    /\ Len(req.items) = 5
    /\ StringsInPlace(Tail(req.items))
    /\ ~out.result.ok

\* C32 (A rejected request changes nothing): a step of the handler on a
\* request that Command::try_from rejects (unknown name, wrong arity, a key
\* that is not UTF-8 after a valid one) leaves the three collections of the
\* store as they were.
RejectedChangesNothing ==
    [][(Len(decoded') = Len(decoded) + 1 /\ ~Command_try_from(last'.frame).ok)
       => TheBackend' = TheBackend]_vars

\* the key was set, then a DEL naming it and a bad second key was rejected,
\* and the key is still there
RejectedChangesNothingReached ==
    /\ Len(decoded) = 2
    /\ decoded[2] = DEL_BAD_SECOND
    /\ ~Command_try_from(decoded[2]).ok
    /\ KvHas(kv, <<"k">>)

\* the two tasks each make one call of hset with fields that differ, or one
\* call of sadd with members that differ, on a key that had no container
BothCreate ==
    /\ DOMAIN tasks = 1..2
    /\ \A n \in 1..2 :
          /\ Len(tasks[n].prog) = 1
          /\ tasks[n].prog[1].op \in EntryOps
          /\ ~Bound(tasks[n].start, tasks[n].prog[1])
    /\ tasks[1].prog[1].op = tasks[2].prog[1].op
    /\ tasks[1].prog[1].key = tasks[2].prog[1].key
    /\ tasks[1].prog[1].op = "hset" => tasks[1].prog[1].field # tasks[2].prog[1].field
    /\ tasks[1].prog[1].op = "sadd" => tasks[1].prog[1].value # tasks[2].prog[1].value

\* C33 (No lost creation): when two tasks call hset(k, f1, v1) and
\* hset(k, f2, v2) with f1 # f2 on a key that has no hash yet, under every
\* interleaving both fields are there with their values once both calls
\* have returned; likewise both members after sadd(k, m1) and sadd(k, m2).
BothWritesKept ==
    (BothCreate /\ AllDone) =>
        \A n \in 1..2 :
            LET c == tasks[n].prog[1]
            IN  IF c.op = "hset"
                THEN Backend_hget(TheBackend, c.key, c.field) = c.value
                ELSE Copies(Members_of(TheBackend, c.key), c.value) = 1

BothWritesKeptReached ==
    /\ BothCreate /\ AllDone
    /\ tasks[1].prog[1].op = "hset"
    /\ tasks[1].waited
    /\ Cardinality(Inner_of(hmap, SHARED_KEY)) = 2

BothMembersKeptReached ==
    /\ BothCreate /\ AllDone
    /\ tasks[1].prog[1].op = "sadd"
    /\ tasks[2].waited
    /\ Cardinality(Members_of(TheBackend, SHARED_KEY)) = 2

\* the calls a command over several arguments makes one per argument
WriteOps == {"del", "hset", "hdel", "sadd", "srem"}

\* the effect of write call w is there in store b
Shown(w, b) ==
    CASE w.op = "del" -> ~KvHas(b.map, w.key)
      [] w.op = "hset" -> Backend_hget(b, w.key, w.field) = w.value
      [] w.op = "hdel" -> Backend_hget(b, w.key, w.field) = NoFrame
      [] w.op = "sadd" -> Copies(Members_of(b, w.key), w.value) >= 1
      [] w.op = "srem" -> Copies(Members_of(b, w.key), w.value) = 0

\* the effect of write call w is there in what read call c returned as r
ShownTo(w, c, r) ==
    CASE c.op = "hgetall" ->
            IF w.op = "hset" THEN KvEntry(w.field, w.value) \in r
            ELSE ~KvHas(r, w.field)
      [] c.op = "hkeys" -> (w.field \in r) = (w.op = "hset")
      [] c.op = "smembers" -> (w.value \in r) = (w.op = "sadd")

\* task n runs the two calls of one command over two arguments, on two
\* entries, neither of which has its effect in the store the task found
TwoArguments(n) ==
    /\ Len(tasks[n].prog) = 2
    /\ tasks[n].prog[1].op \in WriteOps
    /\ tasks[n].prog[1].op = tasks[n].prog[2].op
    /\ tasks[n].prog[1] # tasks[n].prog[2]
    /\ [tasks[n].prog[1] EXCEPT !.value = NoFrame] # [tasks[n].prog[2] EXCEPT !.value = NoFrame]
          \/ tasks[n].prog[1].op \in {"sadd", "srem"}
    /\ \A i \in 1..2 : ~Shown(tasks[n].prog[i], tasks[n].start)

\* task u has returned from one read of the container task n writes to
HasRead(u, n) ==
    /\ Len(tasks[u].prog) = 1 /\ Len(tasks[u].done) = 1
    /\ tasks[u].prog[1].op \in ReadOps
    /\ Coll(tasks[u].prog[1]) = Coll(tasks[n].prog[1])
    /\ tasks[u].prog[1].key = tasks[n].prog[1].key
    /\ tasks[u].done[1].flag

\* C34 (Argument order): a command over several arguments makes its store
\* calls one at a time in argument order, so the store never shows the
\* effect of the second argument without that of the first, and neither
\* does what a reader on another connection is given: not by one HGETALL,
\* HKEYS or SMEMBERS, and not by a GET of the second key followed by a GET
\* of the first.
PrefixOrder ==
    \A n \in DOMAIN tasks : \A u \in DOMAIN tasks \ {n} :
        TwoArguments(n) =>
            /\ Shown(tasks[n].prog[2], TheBackend) => Shown(tasks[n].prog[1], TheBackend)
            /\ HasRead(u, n) =>
                  (ShownTo(tasks[n].prog[2], tasks[u].prog[1], tasks[u].done[1].inner)
                     => ShownTo(tasks[n].prog[1], tasks[u].prog[1], tasks[u].done[1].inner))
            /\ (/\ tasks[n].prog[1].op = "del"
                /\ Len(tasks[u].done) = 2
                /\ tasks[u].prog[1] = Call("get", tasks[n].prog[2].key, <<>>, NoFrame)
                /\ tasks[u].prog[2] = Call("get", tasks[n].prog[1].key, <<>>, NoFrame))
               => (~tasks[u].done[1].flag => ~tasks[u].done[2].flag)

\* C35 (No deadlock): whatever calls the tasks make on the store, readers
\* that keep the outer guard while they visit the inner container and
\* writers that keep it while they insert included, every call returns: no
\* task waits for ever for a lock another task holds.
EveryCallReturns == <>AllDone

EveryCallReturnsReached ==
    /\ AllDone
    /\ DOMAIN tasks = 1..3
    /\ tasks[1].prog[1].op = "hkeys"
    /\ tasks[2].waited /\ tasks[3].waited

\* the input is one composite with a legacy null shorthand as a child
NestedLegacy ==
    /\ input.cpos = 0
    /\ Len(input.pieces) = 1
    /\ input.pieces[1] \in NestedLegacyPieces

\* C36 (Nested legacy nulls): an Array, Map or Set with $-1 or *-1 as a
\* child decodes to the composite with an empty BulkString or an empty
\* Array in that place and nothing is left in the buffer, and the length
\* pre-check counts 5 bytes for such a child.
NestedLegacyDecodes ==
    (NestedLegacy /\ last.nth = 0 /\ last.before = input.pieces[1].enc)
    => /\ last.res = "Ok"
       /\ last.frame = input.pieces[1].frame
       /\ last.after = <<>>
       /\ \A e \in {LEGACY_BULK, LEGACY_ARRAY} :
             RespFrame_expect_length(e) = LenRes("Ok", Len(e))

\* the buffer of the latest decode starts with a bulk string header that is
\* no shorthand, and holds the announced payload and two bytes more
WholeBulk ==
    /\ last.before # <<>>
    /\ last.before[1] = "$"
    /\ ~check_resp2_null(last.before, "$")
    /\ parse_length(last.before, "$").res = "Ok"
    /\ Len(last.before) >= parse_length(last.before, "$").end + CRLF_LEN
                             + parse_length(last.before, "$").len + CRLF_LEN

\* the two bytes after the payload in the buffer of the latest decode
Terminator ==
    SubSeq(last.before,
           parse_length(last.before, "$").end + CRLF_LEN
               + parse_length(last.before, "$").len + 1,
           parse_length(last.before, "$").end + CRLF_LEN
               + parse_length(last.before, "$").len + CRLF_LEN)

\* C37 (Bulk string terminator): the decode of $<len>, CR LF and len bytes
\* of payload returns the payload only when the two bytes after it are
\* CR LF; with any other two bytes there it returns a protocol error.
TerminatorChecked ==
    WholeBulk =>
        /\ last.res = "Ok" => Terminator = CRLF
        /\ Terminator # CRLF => last.res = "Invalid"

\* the keys bound in a map of the store
BoundKeys(m) == {e.key : e \in m}

\* C38 (Only first writes bind): the keys bound in each map of the store
\* grow through set, hset and sadd only; get, del, hget, hgetall, hdel,
\* srem, sismember and smembers on a key that is not bound return absent
\* or false and leave the store as it is, so that hgetall and smembers
\* after an HDEL or SREM on a key never written still return None.
OnlyWritesBind ==
    /\ BoundKeys(kv) \ BoundKeys(op.before.map) # {} => op.cmd.name = NAME_SET
    /\ BoundKeys(hmap) \ BoundKeys(op.before.hmap) # {}
          => op.cmd.name \in {NAME_HSET, NAME_HMSET}
    /\ BoundKeys(sets) \ BoundKeys(op.before.set) # {} => op.cmd.name = NAME_SADD
    /\ \A k \in StoreKeys \ BoundKeys(kv) :
          /\ Backend_get(TheBackend, k) = NoFrame
          /\ Backend_del(TheBackend, k) = [backend |-> TheBackend, removed |-> FALSE]
    /\ \A k \in StoreKeys \ BoundKeys(hmap) : \A f \in StoreFields :
          /\ Backend_hget(TheBackend, k, f) = NoFrame
          /\ ~Backend_hgetall(TheBackend, k).some
          /\ Backend_hdel(TheBackend, k, f) = [backend |-> TheBackend, removed |-> FALSE]
          /\ ~Backend_hgetall(Backend_hdel(TheBackend, k, f).backend, k).some
    /\ \A k \in StoreKeys \ BoundKeys(sets) : \A m \in StoreMembers :
          /\ Backend_srem(TheBackend, k, m) = {[backend |-> TheBackend, changed |-> FALSE]}
          /\ Backend_sismember(TheBackend, k, m) = {FALSE}
          /\ ~Backend_smembers(TheBackend, k).some
          /\ \A o \in Backend_srem(TheBackend, k, m) : ~Backend_smembers(o.backend, k).some

\* HDEL of two fields on a key never written, after a SET of the same key
OnlyWritesBindReached ==
    /\ op.cmd.name = NAME_HDEL
    /\ Len(op.cmd.fields) = 2
    /\ op.reply = Integer(0)
    /\ KvHas(kv, op.cmd.key)
    /\ hmap = {}
    /\ ~Backend_hgetall(TheBackend, op.cmd.key).some

\* the keys inserted so far
KeysDone == {built.done[i].key : i \in 1..Len(built.done)}

\* the value inserted last with key k
LastValue(k) ==
    built.done[CHOOSE i \in 1..Len(built.done) :
                  /\ built.done[i].key = k
                  /\ \A j \in (i + 1)..Len(built.done) : built.done[j].key # k].value

\* the frame that wraps the container
BuiltFrame ==
    IF built.kind = "Set" THEN RespSet({s.key : s \in built.slots})
    ELSE RespMap({MapEntry(s.key, s.value) : s \in built.slots})

\* the children on the wire of a Set or Map that announces the entries done
RECURSIVE Announced(_)
Announced(es) ==
    IF es = <<>> THEN <<>>
    ELSE (IF built.kind = "Set" THEN <<Head(es).key>>
          ELSE <<Head(es).key, Head(es).value>>) \o Announced(Tail(es))

\* the header of a Set or Map of n entries
Header(n) == <<IF built.kind = "Set" THEN "~" ELSE "%">> \o FmtNat(n) \o CRLF

\* C39 (Unique entries): a key inserted into a Map frame twice has one
\* entry, with the value inserted last, and a member inserted into a Set
\* frame twice is there once; the decode of a Map or Set that announces
\* entries with a repeated key or member gives the container without the
\* repetition; and the count the encoder writes after % or ~ is the number
\* of distinct entries that follow.
UniqueEntries ==
    built.kind \in {"Set", "Map"} =>
        /\ \A k \in KeysDone : Cardinality(SlotsOf(built.slots, k)) = 1
        /\ \A s \in built.slots : s.value = LastValue(s.key)
        /\ Cardinality(built.slots) = Cardinality(KeysDone)
        /\ (\A k \in KeysDone : ~OrderSensitive(k)) =>
              /\ \A b \in EncodeAll(Announced(built.done)) :
                    RespFrame_decode(Header(Len(built.done)) \o b)
                        = DecRes("Ok", BuiltFrame, <<>>)
              /\ \A e \in RespFrame_encode(BuiltFrame) :
                    StartsWith(e, Header(Cardinality(KeysDone)))

====
